---- MODULE Spec2Model ----
(***************************************************************************)
(* Quiz application: the scoring engine (src/lib/quiz-utils.ts), the       *)
(* ownership guard and the API route handlers over the relational store.   *)
(*                                                                         *)
(* Strings are sequences of one-character strings, so that trim() and      *)
(* toLowerCase() are computed and not assumed.  null is the value Null.    *)
(***************************************************************************)
EXTENDS Integers, Sequences, FiniteSets, TLC

VARIABLES
    quizzes,    \* Quiz table with its Question and Option rows: quiz id -> row
    attempts,   \* Attempt table: attempt id -> row
    nextId,     \* identifiers handed out so far, per table
    resp,       \* the request just handled and the response it got
    args,       \* arguments of the pure function under analysis
    ret,        \* its return value
    tx,         \* the interactive database transaction in flight, if any
    rateLimitStore, \* the limiter's table: key -> [count, resetTime]
    now,        \* Date.now(), in milliseconds
    calls       \* requests whose handler has started and not yet answered

vars == <<quizzes, attempts, nextId, resp, args, ret, tx, rateLimitStore, now,
          calls>>

(***************************************************************************)
(* Bounds                                                                  *)
(***************************************************************************)
MaxStrLen == 3        \* longest free-text string fed to the scoring engine
MaxQuestions == 3     \* longest question list fed to the scoring engine
MaxTotal == 40        \* largest totalPoints fed to calculatePercentage

(***************************************************************************)
(* Strings                                                                 *)
(***************************************************************************)
Null == <<"null">>
Empty == <<>>
Chars == {" ", "p", "P"}

IsSpace(c) == c = " "

\* String.prototype.toLowerCase on one character
LowerChar(c) == IF c = "P" THEN "p" ELSE IF c = "A" THEN "a" ELSE c

toLowerCase(s) == [i \in 1..Len(s) |-> LowerChar(s[i])]

RECURSIVE trimStart(_)
trimStart(s) ==
    IF s = <<>> THEN s
    ELSE IF IsSpace(Head(s)) THEN trimStart(Tail(s)) ELSE s

RECURSIVE trimEnd(_)
trimEnd(s) ==
    IF s = <<>> THEN s
    ELSE IF IsSpace(s[Len(s)]) THEN trimEnd(SubSeq(s, 1, Len(s) - 1)) ELSE s

\* String.prototype.trim
trim(s) == trimEnd(trimStart(s))

\* JavaScript truthiness of a string-or-null value
Truthy(s) == s # Null /\ s # <<>>

Reverse(s) == [i \in 1..Len(s) |-> s[Len(s) + 1 - i]]

\* a || b on string-or-null values
OrElse(a, b) == IF Truthy(a) THEN a ELSE b

(***************************************************************************)
(* IEEE-754 binary64 arithmetic, as far as calculatePercentage needs it.   *)
(* A positive double is [m, e]: m is its 53-bit significand, most          *)
(* significant bit first (m[1] = 1), e the binary exponent of m[1].        *)
(***************************************************************************)
MantBits == 53

RECURSIVE Pow2(_)
Pow2(k) == IF k = 0 THEN 1 ELSE 2 * Pow2(k - 1)

RECURSIVE PowMod2(_, _)
\* 2^n modulo t, by repeated squaring
PowMod2(n, t) ==
    IF n = 0 THEN 1 % t
    ELSE LET h == PowMod2(n \div 2, t)
         IN  (h * h * (IF n % 2 = 1 THEN 2 ELSE 1)) % t

\* the remainder left after n bits of the binary expansion of r/t, r < t
DivRem(r, t, n) == (r * PowMod2(n, t)) % t

\* the first n bits of the binary expansion of r/t, r < t
DivBits(r, t, n) ==
    [i \in 1..n |-> IF 2 * DivRem(r, t, i - 1) >= t THEN 1 ELSE 0]

\* m + 1 on a bit string that is not all ones
IncBits(m) ==
    LET j == CHOOSE i \in 1..Len(m) :
                 m[i] = 0 /\ \A k \in (i + 1)..Len(m) : m[k] = 1
    IN  [i \in 1..Len(m) |-> IF i < j THEN m[i] ELSE IF i = j THEN 1 ELSE 0]

\* round to nearest, ties to even: g is the first dropped bit, sticky the rest
RoundNearestEven(m, e, g, sticky) ==
    IF g = 1 /\ (sticky \/ m[Len(m)] = 1)
    THEN IF \A i \in 1..Len(m) : m[i] = 1
         THEN [m |-> [i \in 1..Len(m) |-> IF i = 1 THEN 1 ELSE 0], e |-> e + 1]
         ELSE [m |-> IncBits(m), e |-> e]
    ELSE [m |-> m, e |-> e]

RECURSIVE ShiftCount(_, _)
\* the least k with a * 2^k >= b
ShiftCount(a, b) == IF a >= b THEN 0 ELSE 1 + ShiftCount(2 * a, b)

\* the double nearest to a / b, for integers 0 < a <= b
FDiv(a, b) ==
    LET k  == ShiftCount(a, b)
        r0 == a * Pow2(k) - b
        m0 == <<1>> \o DivBits(r0, b, MantBits - 1)
        r  == DivRem(r0, b, MantBits - 1)
        g  == IF 2 * r >= b THEN 1 ELSE 0
    IN  RoundNearestEven(m0, -k, g, 2 * r - g * b > 0)

RECURSIVE BitsToNat(_)
\* the number written by the bits of m, most significant first (below 2^31)
BitsToNat(m) ==
    IF m = <<>> THEN 0
    ELSE IF Len(m) = 1 THEN m[1]
    ELSE LET h == Len(m) \div 2
         IN  BitsToNat(SubSeq(m, 1, h)) * Pow2(Len(m) - h)
               + BitsToNat(SubSeq(m, h + 1, Len(m)))

\* the n low bits of c, most significant first
NatBits(c, n) == [i \in 1..n |-> (c \div Pow2(n - i)) % 2]

\* the number of bits of c >= 1
BitLen(c) == ShiftCount(1, c + 1)

\* the bits of m * f for a 53-bit m and 1 <= f <= 100, by 24-bit limbs
MulBits(m, f) ==
    LET lo  == BitsToNat(SubSeq(m, 30, 53)) * f
        mid == BitsToNat(SubSeq(m, 6, 29)) * f + lo \div Pow2(24)
        hi  == BitsToNat(SubSeq(m, 1, 5)) * f + mid \div Pow2(24)
    IN  NatBits(hi, BitLen(hi)) \o NatBits(mid % Pow2(24), 24)
          \o NatBits(lo % Pow2(24), 24)

\* the double nearest to x * f, for a double x and an integer 1 <= f <= 100
FMul(x, f) ==
    LET p == MulBits(x.m, f)
        L == Len(p)
    IN  IF L = MantBits THEN [m |-> p, e |-> x.e]
        ELSE RoundNearestEven(SubSeq(p, 1, MantBits), x.e + (L - MantBits),
                              p[MantBits + 1],
                              \E i \in (MantBits + 2)..L : p[i] = 1)

\* Math.round of a positive double below 2^31: nearest integer, ties upwards
MathRound(x) ==
    IF x.e >= 0 THEN BitsToNat(SubSeq(x.m, 1, x.e + 1)) + x.m[x.e + 2]
    ELSE IF x.e = -1 THEN 1
    ELSE 0

\* total > 0 ? Math.round((score / total) * 100) : 0, for 0 <= score <= total
calculatePercentage(score, total) ==
    IF total > 0
    THEN IF score = 0 THEN 0 ELSE MathRound(FMul(FDiv(score, total), 100))
    ELSE 0

(***************************************************************************)
(* Scoring engine: calculateQuizScore                                      *)
(***************************************************************************)
\* the least member of a set of indices, 0 when there is none
FirstOf(hits) ==
    IF hits = {} THEN 0 ELSE CHOOSE i \in hits : \A j \in hits : i <= j

\* question.options.find((opt) => opt.isCorrect), as an index (0: undefined)
FindCorrectOption(options) ==
    FirstOf({i \in 1..Len(options) : options[i].isCorrect})

\* question.options.find((opt) => opt.id === userAnswer), as an index
FindUserOption(options, userAnswer) ==
    FirstOf({i \in 1..Len(options) : options[i].id = userAnswer})

\* LookupAnswer recording a missing entry as "-" instead of ""
LookupAnswer_Dash(userAnswers, id) ==
    IF id \in DOMAIN userAnswers THEN OrElse(userAnswers[id], Empty) ELSE <<"-">>

\* userAnswers[question.id] || ""
LookupAnswer(userAnswers, id) ==
    IF id \in DOMAIN userAnswers THEN OrElse(userAnswers[id], Empty) ELSE Empty

\* options.map(opt => ({ id, text, isCorrect }))
OptionsView(options) ==
    [i \in 1..Len(options) |->
        [id |-> options[i].id, text |-> options[i].text,
         isCorrect |-> options[i].isCorrect]]

\* GradeChoice with the answer compared to the first option, flagged or not
GradeChoice_FirstOption(question, userAnswer) ==
    LET ci == FindCorrectOption(question.options)
        ui == FindUserOption(question.options, userAnswer)
        isCorrect == /\ Truthy(userAnswer)
                     /\ Len(question.options) > 0
                     /\ userAnswer = question.options[1].id
    IN  [total |-> 1,
         earned |-> IF isCorrect THEN 1 ELSE 0,
         userAnswerText |-> IF ui = 0 THEN Null
                            ELSE OrElse(question.options[ui].text, Null),
         correctAnswer |-> IF ci = 0 THEN Null
                           ELSE OrElse(question.options[ci].id, Null),
         correctAnswerText |-> IF ci = 0 THEN Null
                               ELSE OrElse(question.options[ci].text, Null),
         isCorrect |-> isCorrect]

\* GradeChoice taking userAnswerText from the option flagged correct
GradeChoice_TextOfCorrect(question, userAnswer) ==
    LET ci == FindCorrectOption(question.options)
        isCorrect == /\ Truthy(userAnswer)
                     /\ ci # 0
                     /\ userAnswer = question.options[ci].id
        text == IF ci = 0 THEN Null ELSE OrElse(question.options[ci].text, Null)
    IN  [total |-> 1,
         earned |-> IF isCorrect THEN 1 ELSE 0,
         userAnswerText |-> text,
         correctAnswer |-> IF ci = 0 THEN Null
                           ELSE OrElse(question.options[ci].id, Null),
         correctAnswerText |-> text,
         isCorrect |-> isCorrect]

\* one iteration of the loop over questions: the points the question adds to
\* totalPoints and to score, and the record pushed on answers
GradeChoice(question, userAnswer) ==
    LET ci == FindCorrectOption(question.options)
        ui == FindUserOption(question.options, userAnswer)
        correctAnswer == IF ci = 0 THEN Null
                         ELSE OrElse(question.options[ci].id, Null)
        correctAnswerText == IF ci = 0 THEN Null
                             ELSE OrElse(question.options[ci].text, Null)
        userAnswerText == IF ui = 0 THEN Null
                          ELSE OrElse(question.options[ui].text, Null)
        isCorrect == /\ Truthy(userAnswer)
                     /\ ci # 0
                     /\ userAnswer = question.options[ci].id
    IN  [total |-> 1,
         earned |-> IF isCorrect THEN 1 ELSE 0,
         userAnswerText |-> userAnswerText,
         correctAnswer |-> correctAnswer,
         correctAnswerText |-> correctAnswerText,
         isCorrect |-> isCorrect]

\* GradeText with the point counted only when the answer is right
GradeText_WrongUncounted(question, userAnswer) ==
    LET normalizedUser == toLowerCase(trim(userAnswer))
        normalizedCorrect ==
            toLowerCase(trim(OrElse(question.correctAnswer, Empty)))
        isCorrect == /\ Truthy(normalizedUser)
                     /\ Truthy(normalizedCorrect)
                     /\ normalizedUser = normalizedCorrect
    IN  [total |-> IF isCorrect THEN 1 ELSE 0,
         earned |-> IF isCorrect THEN 1 ELSE 0,
         userAnswerText |-> userAnswer,
         correctAnswer |-> question.correctAnswer,
         correctAnswerText |-> question.correctAnswer,
         isCorrect |-> isCorrect]

\* GradeText without the guard that both normalized strings are non-empty
GradeText_EmptyMatches(question, userAnswer) ==
    LET normalizedUser == toLowerCase(trim(userAnswer))
        normalizedCorrect ==
            toLowerCase(trim(OrElse(question.correctAnswer, Empty)))
        isCorrect == normalizedUser = normalizedCorrect
    IN  [total |-> 1,
         earned |-> IF isCorrect THEN 1 ELSE 0,
         userAnswerText |-> userAnswer,
         correctAnswer |-> question.correctAnswer,
         correctAnswerText |-> question.correctAnswer,
         isCorrect |-> isCorrect]

GradeText(question, userAnswer) ==
    LET normalizedUser == toLowerCase(trim(userAnswer))
        normalizedCorrect ==
            toLowerCase(trim(OrElse(question.correctAnswer, Empty)))
        isCorrect == /\ Truthy(normalizedUser)
                     /\ Truthy(normalizedCorrect)
                     /\ normalizedUser = normalizedCorrect
    IN  [total |-> 1,
         earned |-> IF isCorrect THEN 1 ELSE 0,
         userAnswerText |-> userAnswer,
         correctAnswer |-> question.correctAnswer,
         correctAnswerText |-> question.correctAnswer,
         isCorrect |-> isCorrect]

GradeQuestion(question, userAnswers) ==
    LET userAnswer == LookupAnswer(userAnswers, question.id)
        g == IF question.type \in {"MCQ", "TRUE_FALSE"}
             THEN GradeChoice(question, userAnswer)
             ELSE IF question.type = "TEXT"
             THEN GradeText(question, userAnswer)
             ELSE [total |-> 0, earned |-> 0, userAnswerText |-> Null,
                   correctAnswer |-> Null, correctAnswerText |-> Null,
                   isCorrect |-> FALSE]
    IN  [total |-> g.total,
         earned |-> g.earned,
         answer |-> [questionId |-> question.id,
                     questionText |-> question.text,
                     type |-> question.type,
                     userAnswer |-> userAnswer,
                     userAnswerText |-> g.userAnswerText,
                     correctAnswer |-> g.correctAnswer,
                     correctAnswerText |-> g.correctAnswerText,
                     isCorrect |-> g.isCorrect,
                     options |-> OptionsView(question.options)]]

RECURSIVE SumSeq(_)
SumSeq(s) == IF s = <<>> THEN 0 ELSE Head(s) + SumSeq(Tail(s))

\* calculateQuizScore walking the answer map first: the questions that
\* have an entry come before those that have none
calculateQuizScore_AnsweredFirst(questions, userAnswers) ==
    LET Answered(q) == q.id \in DOMAIN userAnswers
        Unanswered(q) == q.id \notin DOMAIN userAnswers
        walk == SelectSeq(questions, Answered) \o SelectSeq(questions, Unanswered)
        graded == [i \in 1..Len(walk) |-> GradeQuestion(walk[i], userAnswers)]
        score == SumSeq([i \in 1..Len(walk) |-> graded[i].earned])
        totalPoints == SumSeq([i \in 1..Len(walk) |-> graded[i].total])
    IN  [score |-> score,
         totalPoints |-> totalPoints,
         percentage |-> calculatePercentage(score, totalPoints),
         answers |-> [i \in 1..Len(walk) |-> graded[i].answer]]

calculateQuizScore(questions, userAnswers) ==
    LET graded == [i \in 1..Len(questions) |->
                      GradeQuestion(questions[i], userAnswers)]
        score == SumSeq([i \in 1..Len(questions) |-> graded[i].earned])
        totalPoints == SumSeq([i \in 1..Len(questions) |-> graded[i].total])
    IN  [score |-> score,
         totalPoints |-> totalPoints,
         percentage |-> calculatePercentage(score, totalPoints),
         answers |-> [i \in 1..Len(questions) |-> graded[i].answer]]

(***************************************************************************)
(* Inputs of the scoring engine                                            *)
(***************************************************************************)
Digit == <<"1", "2", "3", "4", "5", "6", "7", "8", "9", "a", "b", "c", "d", "e",
           "f", "g", "h", "i", "j", "k">>

\* identifiers are opaque non-empty strings (cuid): a table letter and a digit
QId(n) == <<"q", Digit[n]>>
OId(n) == <<"o", Digit[n]>>

\* every string over Chars of length at most n
Strings(n) == UNION {[1..k -> Chars] : k \in 0..n}

MkOption(n, flag) ==
    [id |-> OId(n), text |-> <<"t", Digit[n]>>, isCorrect |-> flag]

\* the question stored at position i of a quiz, by shape
MkChoice(i, type, flags) ==
    [id |-> QId(i), text |-> <<"Q", Digit[i]>>, type |-> type, order |-> i - 1,
     correctAnswer |-> Null,
     options |-> [j \in 1..Len(flags) |->
                     MkOption(Len(flags) * (i - 1) + j, flags[j])]]

MkText(i, correct) ==
    [id |-> QId(i), text |-> <<"Q", Digit[i]>>, type |-> "TEXT",
     order |-> i - 1, correctAnswer |-> correct, options |-> <<>>]

\* question shapes used in question lists: a choice question (MCQ at odd
\* positions, TRUE_FALSE at even ones) and TEXT with and without an answer
ListShapes(i) ==
    { IF i % 2 = 1 THEN MkChoice(i, "MCQ", <<TRUE, FALSE>>)
                   ELSE MkChoice(i, "TRUE_FALSE", <<FALSE, TRUE>>),
      MkText(i, <<"P">>),
      MkText(i, Null) }

\* what a participant may send for the question at position i of a list
ListAnswers(i) == { OId(2 * i - 1), OId(2 * i), <<"p">> }

\* the answer map f with the answer v recorded for id; no key when v is Null
WithAnswer(f, id, v) ==
    IF v = Null THEN f
    ELSE [k \in DOMAIN f \cup {id} |-> IF k = id THEN v ELSE f[k]]

RECURSIVE ListInputs(_)
\* question lists of length n, each question answered in every way or not at all
ListInputs(n) ==
    IF n = 0 THEN {[questions |-> <<>>, userAnswers |-> <<>>]}
    ELSE {[questions |-> Append(x.questions, q),
           userAnswers |-> WithAnswer(x.userAnswers, QId(n), v)] :
              x \in ListInputs(n - 1), q \in ListShapes(n),
              v \in ListAnswers(n) \cup {Null}}

\* one choice question with two or three options, flagged in every way
ChoiceShapes ==
    {MkChoice(1, type, flags) :
        type \in {"MCQ", "TRUE_FALSE"},
        flags \in [1..2 -> BOOLEAN] \cup [1..3 -> BOOLEAN]}

ChoiceAnswers ==
    { OId(1), OId(2), OId(3), OId(9), <<"t", "1">>, <<" ">>, Empty, Null }


\* one TEXT question with every expected answer up to MaxStrLen
TextShapes == {MkText(1, c) : c \in Strings(MaxStrLen) \cup {Null}}

ChoiceInputs ==
    {[questions |-> <<q>>, userAnswers |-> WithAnswer(<<>>, QId(1), v)] :
        q \in ChoiceShapes, v \in ChoiceAnswers}

TextInputs ==
    {[questions |-> <<q>>, userAnswers |-> WithAnswer(<<>>, QId(1), v)] :
        q \in TextShapes, v \in Strings(MaxStrLen) \cup {Null}}

\* two-question lists stored in the opposite order of their ids
ReversedInputs ==
    {[questions |-> Reverse(x.questions), userAnswers |-> x.userAnswers] :
        x \in ListInputs(2)}

ScoreInputs ==
    UNION {ListInputs(n) : n \in 0..MaxQuestions}
        \cup ReversedInputs \cup ChoiceInputs \cup TextInputs

PercentageInputs ==
    {[score |-> sc, total |-> t] : sc \in 0..MaxTotal, t \in 0..MaxTotal}

(***************************************************************************)
(* Values of the variables a specification leaves unused                   *)
(***************************************************************************)
NoCall == [fn |-> "none"]
NoRet == [done |-> FALSE]
NoResp == [op |-> "none", user |-> "anonymous", quizId |-> Null,
           attemptId |-> Null, success |-> TRUE, status |-> 0, code |-> "NONE",
           data |-> Null]
NoTx == [pc |-> "idle"]

\* the request slots of the server, none of them taken
Slots == {"r1", "r2"}
NoCalls == [s \in Slots |-> [pc |-> 0]]

\* a step that leaves the limiter, the clock and the requests in flight alone
Quiet == UNCHANGED <<rateLimitStore, now, calls>>

(***************************************************************************)
(* SpecPure: the pure functions applied to every input of the bounded sets *)
(***************************************************************************)
\* successResponse(data, status)
successResponse(data, status) ==
    [success |-> TRUE, status |-> status, code |-> "OK", data |-> data]

\* errorResponse(ApiError): the error's own statusCode and code
ApiErrorResponse(status, code) ==
    [success |-> FALSE, status |-> status, code |-> code, data |-> Null]

\* the ApiError made by the static factory of that name
ApiError(factory) ==
    LET made == CASE factory = "badRequest" -> <<400, "BAD_REQUEST">>
                  [] factory = "unauthorized" -> <<401, "UNAUTHORIZED">>
                  [] factory = "forbidden" -> <<403, "FORBIDDEN">>
                  [] factory = "notFound" -> <<404, "NOT_FOUND">>
                  [] factory = "tooManyRequests" -> <<429, "TOO_MANY_REQUESTS">>
                  [] factory = "internal" -> <<500, "INTERNAL_ERROR">>
    IN  [class |-> "ApiError", name |-> <<"Api", "Error">>,
         statusCode |-> made[1], code |-> made[2]]

\* what a handler may throw: an ApiError, the ZodError of safeParse, an
\* error of the Prisma client, the SyntaxError of request.json(), a
\* TypeError.  An error's name is kept as the words it is made of.
Thrown ==
    {ApiError(f) : f \in {"badRequest", "unauthorized", "forbidden",
                          "notFound", "tooManyRequests", "internal"}}
        \cup {[class |-> "ZodError", name |-> <<"Zod", "Error">>],
              [class |-> "Error",
               name |-> <<"Prisma", "Client", "Known", "Request", "Error">>],
              [class |-> "Error",
               name |-> <<"Prisma", "Client", "Validation", "Error">>],
              [class |-> "Error", name |-> <<"Syntax", "Error">>],
              [class |-> "Error", name |-> <<"Type", "Error">>]}

\* errorResponse(error, status = 500); a body without code has the code
\* "undefined"
errorResponse(error) ==
    IF error.class = "ApiError"
    THEN ApiErrorResponse(error.statusCode, error.code)
    ELSE IF error.class = "ZodError" THEN ApiErrorResponse(400, "VALIDATION_ERROR")
    ELSE ApiErrorResponse(500, "undefined")

\* withErrorHandler handing every error it does not know to errorResponse
withErrorHandler_Unwrapped(outcome) ==
    IF outcome.kind = "return" THEN outcome.response
    ELSE errorResponse(outcome.error)

\* withErrorHandler(handler) called on a request for which the handler
\* returns a response or throws
withErrorHandler(outcome) ==
    IF outcome.kind = "return" THEN outcome.response
    ELSE LET error == outcome.error
         IN  IF error.class = "ApiError" THEN errorResponse(error)
             ELSE IF error.class = "ZodError" THEN errorResponse(error)
             ELSE IF \E i \in 1..Len(error.name) : error.name[i] = "Prisma"
             THEN errorResponse(ApiError("badRequest"))
             ELSE errorResponse(ApiError("internal"))

HandlerOutcomes ==
    {[kind |-> "return", response |-> successResponse(Null, st)] :
        st \in {200, 201}}
        \cup {[kind |-> "throw", error |-> e] : e \in Thrown}

InitPure ==
    /\ quizzes = <<>>
    /\ attempts = <<>>
    /\ nextId = [quiz |-> 0, question |-> 0, option |-> 0, attempt |-> 0]
    /\ resp = NoResp
    /\ ret = NoRet
    /\ tx = NoTx
    /\ rateLimitStore = <<>>
    /\ now = 0
    /\ calls = NoCalls
    /\ \/ \E x \in ScoreInputs :
            args = [fn |-> "calculateQuizScore", questions |-> x.questions,
                    userAnswers |-> x.userAnswers]
       \/ \E x \in {y \in PercentageInputs : y.score <= y.total} :
            args = [fn |-> "calculatePercentage", score |-> x.score,
                    total |-> x.total]
       \/ \E o \in HandlerOutcomes :
            args = [fn |-> "withErrorHandler", outcome |-> o]

CallScore ==
    /\ args.fn = "calculateQuizScore"
    /\ ~ret.done
    /\ ret' = [done |-> TRUE,
               value |-> calculateQuizScore(args.questions, args.userAnswers)]
    /\ UNCHANGED <<quizzes, attempts, nextId, resp, args, tx>>
    /\ Quiet

CallPercentage ==
    /\ args.fn = "calculatePercentage"
    /\ ~ret.done
    /\ ret' = [done |-> TRUE,
               value |-> calculatePercentage(args.score, args.total)]
    /\ UNCHANGED <<quizzes, attempts, nextId, resp, args, tx>>
    /\ Quiet

CallHandler ==
    /\ args.fn = "withErrorHandler"
    /\ ~ret.done
    /\ ret' = [done |-> TRUE, value |-> withErrorHandler(args.outcome)]
    /\ UNCHANGED <<quizzes, attempts, nextId, resp, args, tx>>
    /\ Quiet

NextPure == CallScore \/ CallPercentage \/ CallHandler

SpecPure == InitPure /\ [][NextPure]_vars

(***************************************************************************)
(* Properties of the scoring engine                                        *)
(***************************************************************************)
Scored == args.fn = "calculateQuizScore" /\ ret.done

\* the string submitted for a question: the map's entry, "" when there is none
Submitted(q) ==
    IF q.id \in DOMAIN args.userAnswers THEN args.userAnswers[q.id] ELSE Empty

\* C1: for every list of N questions of type MCQ, TRUE_FALSE or TEXT and
\* every answer map, the result's totalPoints is N (0 for the empty list).
C1_TotalPointsIsCount ==
    Scored /\ (\A i \in 1..Len(args.questions) :
                  args.questions[i].type \in {"MCQ", "TRUE_FALSE", "TEXT"})
        => ret.value.totalPoints = Len(args.questions)

\* three questions, a TEXT question answered wrongly among them, total 3
C1_Witness ==
    /\ Scored
    /\ Len(args.questions) = 3
    /\ \E i \in 1..3 : /\ args.questions[i].type = "TEXT"
                       /\ ~ret.value.answers[i].isCorrect
    /\ ret.value.totalPoints = 3

FlaggedOptions(q) == {j \in 1..Len(q.options) : q.options[j].isCorrect}

\* C2: an MCQ or TRUE_FALSE question with exactly one flagged option is
\* marked correct iff the submitted string is the id of that option; the
\* score is the number of questions marked correct, and such a question on
\* its own gives totalPoints 1 whatever is submitted.
C2_ChoiceCorrectIffFlaggedId ==
    Scored =>
        /\ \A i \in 1..Len(args.questions) :
              LET q == args.questions[i]
              IN  (q.type \in {"MCQ", "TRUE_FALSE"}
                   /\ Cardinality(FlaggedOptions(q)) = 1)
                  => LET j == CHOOSE k \in FlaggedOptions(q) : TRUE
                     IN  /\ ret.value.answers[i].isCorrect
                             <=> (Submitted(q) = q.options[j].id)
                         /\ Len(args.questions) = 1 =>
                              /\ ret.value.totalPoints = 1
                              /\ ret.value.score =
                                   IF Submitted(q) = q.options[j].id
                                   THEN 1 ELSE 0
        /\ ret.value.score =
              Cardinality({i \in 1..Len(args.questions) :
                              ret.value.answers[i].isCorrect})

\* a question whose second option is the flagged one, answered with its id
C2_Witness ==
    /\ Scored
    /\ Len(args.questions) = 1
    /\ args.questions[1].type \in {"MCQ", "TRUE_FALSE"}
    /\ FlaggedOptions(args.questions[1]) = {2}
    /\ Submitted(args.questions[1]) = args.questions[1].options[2].id
    /\ ret.value.score = 1
    /\ ret.value.totalPoints = 1

\* the positions of s that hold something other than whitespace
Inked(s) == {i \in 1..Len(s) : s[i] # " "}

\* s without its surrounding whitespace, letters in lower case
Core(s) ==
    IF Inked(s) = {} THEN <<>>
    ELSE LET lo == CHOOSE i \in Inked(s) : \A j \in Inked(s) : i <= j
             hi == CHOOSE i \in Inked(s) : \A j \in Inked(s) : j <= i
         IN  [k \in 1..(hi - lo + 1) |->
                 IF s[lo + k - 1] = "P" THEN "p" ELSE s[lo + k - 1]]

C3_WitnessBlank ==
    /\ Scored
    /\ Len(args.questions) = 1
    /\ args.questions[1].type = "TEXT"
    /\ args.questions[1].correctAnswer = <<" ">>
    /\ Submitted(args.questions[1]) = Empty
    /\ ~ret.value.answers[1].isCorrect

\* 100 * score / total rounded to the nearest integer, halves upwards
RoundedPercent(score, total) ==
    IF total = 0 THEN 0 ELSE (200 * score + total) \div (2 * total)

\* C4: for 0 <= score <= totalPoints the percentage is 100*score/totalPoints
\* rounded to the nearest integer, halves rounded up, and 0 for totalPoints 0.
C4_PercentageIsRounded ==
    /\ (args.fn = "calculatePercentage" /\ ret.done)
          => ret.value = RoundedPercent(args.score, args.total)
    /\ Scored => ret.value.percentage =
                    RoundedPercent(ret.value.score, ret.value.totalPoints)

(***************************************************************************)
(* Storage: the rows the handlers read and write through Prisma            *)
(***************************************************************************)
MaxRows == 3       \* quiz, question and attempt rows ever inserted

Users == {"u1", "u2"}
NoUser == "anonymous"       \* a request without a valid session

ZId(n) == <<"z", Digit[n]>>
AId(n) == <<"a", Digit[n]>>

Has(r, f) == f \in DOMAIN r

\* Without that removes nothing
Without_Kept(f, k) == f

\* the function f without the key k
Without(f, k) == [x \in DOMAIN f \ {k} |-> f[x]]

\* the function f with key k bound to v
With(f, k, v) == [x \in DOMAIN f \cup {k} |-> IF x = k THEN v ELSE f[x]]

RECURSIVE InsertByOrder(_, _)
InsertByOrder(sorted, q) ==
    IF sorted = <<>> THEN <<q>>
    ELSE IF q.order < Head(sorted).order THEN <<q>> \o sorted
    ELSE <<Head(sorted)>> \o InsertByOrder(Tail(sorted), q)

RECURSIVE OrderByOrderAsc(_)
\* orderBy: { order: "asc" }; rows of equal order stay in creation order
OrderByOrderAsc(rows) ==
    IF rows = <<>> THEN <<>>
    ELSE InsertByOrder(OrderByOrderAsc(SubSeq(rows, 1, Len(rows) - 1)),
                       rows[Len(rows)])

\* the number of elements of a sequence of sequences
RECURSIVE CountOptions(_)
CountOptions(qs) ==
    IF qs = <<>> THEN 0
    ELSE (IF Has(Head(qs), "options") THEN Len(Head(qs).options) ELSE 0)
         + CountOptions(Tail(qs))

\* questions.map((q, index) => ({ text, type, order: q.order ?? index,
\* correctAnswer, options: { create: ... } })): the rows the nested create
\* inserts, with identifiers following those handed out so far
QuestionRows(questions, ids) ==
    [i \in 1..Len(questions) |->
        LET q == questions[i]
            before == CountOptions(SubSeq(questions, 1, i - 1))
        IN  [id |-> QId(ids.question + i),
             text |-> q.text,
             type |-> q.type,
             order |-> IF Has(q, "order") THEN q.order ELSE i - 1,
             correctAnswer |-> IF Has(q, "correctAnswer")
                               THEN q.correctAnswer ELSE Null,
             options |-> IF Has(q, "options")
                         THEN [j \in 1..Len(q.options) |->
                                  [id |-> OId(ids.option + before + j),
                                   text |-> q.options[j].text,
                                   isCorrect |-> q.options[j].isCorrect]]
                         ELSE <<>>]]

(***************************************************************************)
(* Request validation: src/lib/validations/quiz.ts                         *)
(***************************************************************************)
OptionSchema(opt) == Len(opt.text) >= 1

QuestionSchema(q) ==
    /\ Len(q.text) >= 1
    /\ q.type \in {"MCQ", "TRUE_FALSE", "TEXT"}
    /\ Has(q, "order") /\ q.order >= 0
    /\ Has(q, "options") => \A j \in 1..Len(q.options) : OptionSchema(q.options[j])
    /\ q.type \in {"MCQ", "TRUE_FALSE"} =>
          /\ Has(q, "options")
          /\ Len(q.options) # 0
          /\ \E j \in 1..Len(q.options) : q.options[j].isCorrect

CreateQuizSchema(body) ==
    /\ Has(body, "title") /\ Len(body.title) >= 1 /\ Len(body.title) <= 200
    /\ Has(body, "description") => Len(body.description) <= 1000
    /\ Has(body, "questions")
    /\ Len(body.questions) >= 1
    /\ \A i \in 1..Len(body.questions) : QuestionSchema(body.questions[i])

UpdateQuizSchema(body) ==
    /\ Has(body, "title") => Len(body.title) >= 1 /\ Len(body.title) <= 200
    /\ (Has(body, "description") /\ body.description # Null)
          => Len(body.description) <= 1000
    /\ Has(body, "questions") =>
          /\ Len(body.questions) >= 1
          /\ \A i \in 1..Len(body.questions) : QuestionSchema(body.questions[i])

\* SubmitQuizSchema without the upper limit on participantName
SubmitQuizSchema_NoMax(body) ==
    /\ Has(body, "participantName")
    /\ Len(body.participantName) >= 1
    /\ Has(body, "answers")

SubmitQuizSchema(body) ==
    /\ Has(body, "participantName")
    /\ Len(body.participantName) >= 1
    /\ Len(body.participantName) <= 100
    /\ Has(body, "answers")

(***************************************************************************)
(* Requests                                                                *)
(***************************************************************************)
ChoiceBody(type, order, flags) ==
    [text |-> <<"Q">>, type |-> type, order |-> order,
     options |-> [j \in 1..Len(flags) |->
                     [text |-> <<"t", Digit[j]>>, isCorrect |-> flags[j]]]]

TextBody(order, correct) ==
    [text |-> <<"Q">>, type |-> "TEXT", order |-> order, correctAnswer |-> correct]

\* question lists sent by the quiz form; the last one fails QuestionSchema
QuestionBodies ==
    { <<ChoiceBody("MCQ", 0, <<TRUE, FALSE>>)>>,
      <<TextBody(0, <<"P">>)>>,
      <<TextBody(1, <<"P">>), ChoiceBody("TRUE_FALSE", 0, <<FALSE, TRUE>>)>>,
      <<ChoiceBody("MCQ", 0, <<FALSE, FALSE>>)>> }

CreateBodies ==
    {[title |-> <<"A">>, questions |-> qs] : qs \in QuestionBodies}
    \cup {[title |-> <<"A">>, isPublished |-> TRUE,
           questions |-> <<TextBody(0, <<"P">>)>>],
          [title |-> Empty,
           questions |-> <<ChoiceBody("MCQ", 0, <<TRUE, FALSE>>)>>]}

UpdateBodies ==
    { [isPublished |-> TRUE],
      [isPublished |-> FALSE],
      [title |-> <<"B">>, description |-> <<"d">>, createdById |-> "u2"],
      [title |-> Empty],
      [questions |-> <<ChoiceBody("TRUE_FALSE", 0, <<FALSE, TRUE>>)>>],
      [questions |-> <<ChoiceBody("MCQ", 0, <<FALSE, FALSE>>)>>] }

\* what a participant may send for a stored question, by preference k
AnswerChoice(q, k) ==
    IF q.type = "TEXT" THEN (IF k = 1 THEN <<"p">> ELSE <<"P", "p">>)
    ELSE IF Len(q.options) >= k THEN q.options[k].id ELSE Empty

\* the answer maps over a stored question list: nothing answered, or every
\* question answered with the participant's k-th choice
AnswersFor(qs) ==
    {<<>>} \cup {[id \in {qs[i].id : i \in 1..Len(qs)} |->
                     LET i == CHOOSE j \in 1..Len(qs) : qs[j].id = id
                     IN  AnswerChoice(qs[i], k)] : k \in 1..2}

LongName == [i \in 1..101 |-> "n"]

\* submission bodies for quiz id: well-formed ones and schema violations
SubmitBodies(id) ==
    LET maps == IF id \in DOMAIN quizzes THEN AnswersFor(quizzes[id].questions)
                ELSE {<<>>}
    IN  {[participantName |-> <<"n">>, answers |-> m] : m \in maps}
        \cup { [participantName |-> Empty, answers |-> <<>>],
               [participantName |-> LongName, answers |-> <<>>],
               [answers |-> <<>>],
               [participantName |-> <<"n">>] }

\* the identifiers a request may name: those handed out so far, and one
\* that no row ever had
QuizIds == {ZId(n) : n \in 1..(nextId.quiz + 1)}
AttemptIds == {AId(n) : n \in 1..(nextId.attempt + 1)}

\* rows inserted so far
Rows == nextId.quiz + nextId.question + nextId.attempt

\* there is room for n more rows within MaxRows
RoomFor(n) == Rows + n <= MaxRows

(***************************************************************************)
(* Responses: src/lib/api-utils.ts                                         *)
(***************************************************************************)
Unauthorized == ApiErrorResponse(401, "UNAUTHORIZED")
Forbidden == ApiErrorResponse(403, "FORBIDDEN")
NotFound == ApiErrorResponse(404, "NOT_FOUND")
TooManyRequests == ApiErrorResponse(429, "TOO_MANY_REQUESTS")
\* errorResponse(ZodError)
ValidationError == ApiErrorResponse(400, "VALIDATION_ERROR")

\* the request and its response, as recorded in resp.  A handler that
\* answers 429 or 401 returns before it reads the session, the route
\* parameters or the body, so none of them is recorded for such a response.
Handled(op, user, quizId, attemptId, response) ==
    LET early == response.status \in {429, 401}
    IN  [op |-> op,
         user |-> IF response.status = 429 THEN NoUser ELSE user,
         quizId |-> IF early THEN Null ELSE quizId,
         attemptId |-> IF early THEN Null ELSE attemptId,
         success |-> response.success, status |-> response.status,
         code |-> response.code, data |-> response.data]

(***************************************************************************)
(* Ownership guard: requireQuizOwnership                                   *)
(***************************************************************************)
\* QUIZ_OWNERSHIP_SELECT
OwnershipSelect(quiz) ==
    [id |-> quiz.id, title |-> quiz.title, createdById |-> quiz.createdById,
     isPublished |-> quiz.isPublished]

\* requireQuizOwnership with the owner test dropped
requireQuizOwnership_AnyUser(quizId, userId) ==
    IF quizId \notin DOMAIN quizzes THEN [kind |-> "NotFound"]
    ELSE [kind |-> "Ok", quiz |-> OwnershipSelect(quizzes[quizId])]

\* the quiz's metadata, or the ApiError thrown
requireQuizOwnership(quizId, userId) ==
    IF quizId \notin DOMAIN quizzes THEN [kind |-> "NotFound"]
    ELSE IF quizzes[quizId].createdById # userId THEN [kind |-> "Forbidden"]
    ELSE [kind |-> "Ok", quiz |-> OwnershipSelect(quizzes[quizId])]

(***************************************************************************)
(* Admin routes: /api/quizzes and /api/quizzes/[id]                        *)
(*                                                                         *)
(* rateLimit(request, RATE_LIMITS.x) answers from a counter table keyed by *)
(* client address; here its verdict arrives with the request (throttled).  *)
(***************************************************************************)
Idle == UNCHANGED <<args, ret, tx>>
ReadOnly == UNCHANGED <<quizzes, attempts, nextId>>

\* GET /api/quizzes: the caller's quizzes, newest first, with row counts
ListedQuizzes(user) ==
    LET Listed(n) == ZId(n) \in DOMAIN quizzes /\ quizzes[ZId(n)].createdById = user
        F[n \in 0..nextId.quiz] ==
            IF n = 0 THEN <<>>
            ELSE IF Listed(n)
                 THEN F[n - 1] \o <<[id |-> ZId(n),
                                    title |-> quizzes[ZId(n)].title,
                                    isPublished |-> quizzes[ZId(n)].isPublished,
                                    createdById |-> user,
                                    questions |-> Len(quizzes[ZId(n)].questions),
                                    attempts |-> Cardinality(
                                        {a \in DOMAIN attempts :
                                            attempts[a].quizId = ZId(n)})]>>
                 ELSE F[n - 1]
    IN  Reverse(F[nextId.quiz])

ListQuizzes(user) ==
    /\ resp' = Handled("list", user, Null, Null,
                       IF user = NoUser THEN Unauthorized
                       ELSE successResponse(ListedQuizzes(user), 200))
    /\ ReadOnly /\ Idle

\* the quiz row prisma.quiz.create inserts for a validated body
NewQuizRow(user, body) ==
    [id |-> ZId(nextId.quiz + 1),
     title |-> body.title,
     description |-> IF Has(body, "description") THEN body.description ELSE Null,
     isPublished |-> IF Has(body, "isPublished") THEN body.isPublished ELSE FALSE,
     createdById |-> user,
     questions |-> OrderByOrderAsc(QuestionRows(body.questions, nextId))]

\* the request passes the limiter, requireAuth and CreateQuizSchema
CreateAccepted(user, throttled, body) ==
    ~throttled /\ user # NoUser /\ CreateQuizSchema(body)

\* POST /api/quizzes
CreateQuiz(user, throttled, body) ==
    LET accepted == CreateAccepted(user, throttled, body)
        row == NewQuizRow(user, body)
    IN  /\ resp' = Handled("create", user, Null, Null,
                      IF throttled THEN TooManyRequests
                      ELSE IF user = NoUser THEN Unauthorized
                      ELSE IF ~CreateQuizSchema(body) THEN ValidationError
                      ELSE successResponse(row, 201))
        /\ IF accepted
           THEN /\ quizzes' = With(quizzes, row.id, row)
                /\ nextId' = [nextId EXCEPT
                                !.quiz = @ + 1,
                                !.question = @ + Len(body.questions),
                                !.option = @ + CountOptions(body.questions)]
                /\ UNCHANGED attempts
           ELSE ReadOnly
        /\ Idle

\* IsOwner with the comparison left out
IsOwner_Anyone(quiz, user) == TRUE

\* the ownership test each handler of /api/quizzes/[id] makes on the row
\* it loaded: quiz.createdById !== session.user.id throws Forbidden
IsOwner(quiz, user) == quiz.createdById = user

\* GET /api/quizzes/[id]
ViewQuiz(user, id) ==
    /\ resp' = Handled("view", user, id, Null,
                  IF user = NoUser THEN Unauthorized
                  ELSE IF id \notin DOMAIN quizzes THEN NotFound
                  ELSE IF ~IsOwner(quizzes[id], user) THEN Forbidden
                  ELSE successResponse(quizzes[id], 200))
    /\ ReadOnly /\ Idle

\* UpdatedQuizRow with the parsed body spread into the update's data, so
\* that a createdById field of the body reaches the row
UpdatedQuizRow_SpreadBody(quiz, body) ==
    [id |-> quiz.id,
     title |-> IF Has(body, "title") /\ Truthy(body.title)
               THEN body.title ELSE quiz.title,
     description |-> IF Has(body, "description") THEN body.description
                     ELSE quiz.description,
     isPublished |-> IF Has(body, "isPublished") THEN body.isPublished
                     ELSE quiz.isPublished,
     createdById |-> IF Has(body, "createdById") THEN body.createdById
                     ELSE quiz.createdById,
     questions |-> IF Has(body, "questions")
                   THEN OrderByOrderAsc(QuestionRows(body.questions, nextId))
                   ELSE quiz.questions]

\* UpdatedQuizRow with isPublished defaulting to false as in CreateQuizSchema
UpdatedQuizRow_DefaultUnpublished(quiz, body) ==
    [id |-> quiz.id,
     title |-> IF Has(body, "title") /\ Truthy(body.title)
               THEN body.title ELSE quiz.title,
     description |-> IF Has(body, "description") THEN body.description
                     ELSE quiz.description,
     isPublished |-> IF Has(body, "isPublished") THEN body.isPublished
                     ELSE FALSE,
     createdById |-> quiz.createdById,
     questions |-> IF Has(body, "questions")
                   THEN OrderByOrderAsc(QuestionRows(body.questions, nextId))
                   ELSE quiz.questions]

\* the row left by the transaction of PUT: deleteMany of the quiz's questions
\* when the body carries questions, then quiz.update with the supplied fields
UpdatedQuizRow(quiz, body) ==
    [id |-> quiz.id,
     title |-> IF Has(body, "title") /\ Truthy(body.title)
               THEN body.title ELSE quiz.title,
     description |-> IF Has(body, "description") THEN body.description
                     ELSE quiz.description,
     isPublished |-> IF Has(body, "isPublished") THEN body.isPublished
                     ELSE quiz.isPublished,
     createdById |-> quiz.createdById,
     questions |-> IF Has(body, "questions")
                   THEN OrderByOrderAsc(QuestionRows(body.questions, nextId))
                   ELSE quiz.questions]

\* the request passes the limiter, requireAuth, the existence and ownership
\* tests and UpdateQuizSchema
EditAccepted(user, id, throttled, body) ==
    /\ ~throttled /\ user # NoUser
    /\ id \in DOMAIN quizzes
    /\ IsOwner(quizzes[id], user)
    /\ UpdateQuizSchema(body)

\* PUT /api/quizzes/[id]
EditQuiz(user, id, throttled, body) ==
    LET accepted == EditAccepted(user, id, throttled, body)
    IN  /\ resp' = Handled("edit", user, id, Null,
                      IF throttled THEN TooManyRequests
                      ELSE IF user = NoUser THEN Unauthorized
                      ELSE IF id \notin DOMAIN quizzes THEN NotFound
                      ELSE IF ~IsOwner(quizzes[id], user) THEN Forbidden
                      ELSE IF ~UpdateQuizSchema(body) THEN ValidationError
                      ELSE successResponse(UpdatedQuizRow(quizzes[id], body), 200))
        /\ IF accepted
           THEN /\ quizzes' = [quizzes EXCEPT ![id] = UpdatedQuizRow(@, body)]
                /\ nextId' = IF Has(body, "questions")
                             THEN [nextId EXCEPT
                                     !.question = @ + Len(body.questions),
                                     !.option = @ + CountOptions(body.questions)]
                             ELSE nextId
                /\ UNCHANGED attempts
           ELSE ReadOnly
        /\ Idle

\* the Attempt table after the quiz's rows went with it (onDelete: Cascade)
AttemptsAfterQuizDelete(id) ==
    [a \in {x \in DOMAIN attempts : attempts[x].quizId # id} |-> attempts[a]]

\* DELETE /api/quizzes/[id]
DeleteQuiz(user, id, throttled) ==
    LET accepted == /\ ~throttled /\ user # NoUser
                    /\ id \in DOMAIN quizzes
                    /\ IsOwner(quizzes[id], user)
    IN  /\ resp' = Handled("delete", user, id, Null,
                      IF throttled THEN TooManyRequests
                      ELSE IF user = NoUser THEN Unauthorized
                      ELSE IF id \notin DOMAIN quizzes THEN NotFound
                      ELSE IF ~IsOwner(quizzes[id], user) THEN Forbidden
                      ELSE successResponse(<<"d", "e", "l", "e", "t", "e", "d">>, 200))
        /\ IF accepted
           THEN /\ quizzes' = Without(quizzes, id)
                /\ attempts' = AttemptsAfterQuizDelete(id)
                /\ UNCHANGED nextId
           ELSE ReadOnly
        /\ Idle

\* attempts.map(a => ({ ...a, percentage })), newest first
AttemptSummaries(id) ==
    LET F[n \in 0..nextId.attempt] ==
            IF n = 0 THEN <<>>
            ELSE IF AId(n) \in DOMAIN attempts /\ attempts[AId(n)].quizId = id
                 THEN F[n - 1] \o
                      <<[id |-> AId(n),
                         participantName |-> attempts[AId(n)].participantName,
                         score |-> attempts[AId(n)].score,
                         totalPoints |-> attempts[AId(n)].totalPoints,
                         percentage |-> calculatePercentage(
                             attempts[AId(n)].score, attempts[AId(n)].totalPoints)]>>
                 ELSE F[n - 1]
    IN  Reverse(F[nextId.attempt])

\* GET /api/quizzes/[id]/attempts
ViewAttempts(user, id) ==
    LET owned == requireQuizOwnership(id, user)
    IN  /\ resp' = Handled("attempts", user, id, Null,
                      IF user = NoUser THEN Unauthorized
                      ELSE IF owned.kind = "NotFound" THEN NotFound
                      ELSE IF owned.kind = "Forbidden" THEN Forbidden
                      ELSE successResponse(
                               [quizId |-> owned.quiz.id,
                                quizTitle |-> owned.quiz.title,
                                attempts |-> AttemptSummaries(id)], 200))
        /\ ReadOnly /\ Idle

(***************************************************************************)
(* Public routes: quiz fetch, submit, result                               *)
(***************************************************************************)
\* PublicQuizView with each question copied whole into the response
PublicQuizView_WholeQuestion(quiz) ==
    [id |-> quiz.id, title |-> quiz.title, description |-> quiz.description,
     questions |-> quiz.questions]

\* the response body of the public quiz fetch: options are selected as
\* { id, text }, questions mapped to { id, text, type, order, options }
PublicQuizView(quiz) ==
    [id |-> quiz.id,
     title |-> quiz.title,
     description |-> quiz.description,
     questions |-> [i \in 1..Len(quiz.questions) |->
         LET q == quiz.questions[i]
         IN  [id |-> q.id, text |-> q.text, type |-> q.type, order |-> q.order,
              options |-> [j \in 1..Len(q.options) |->
                              [id |-> q.options[j].id,
                               text |-> q.options[j].text]]]]]

\* PublicGetQuiz answering Forbidden for a quiz that is not published
PublicGetQuiz_Forbidden(id) ==
    /\ resp' = Handled("publicQuiz", NoUser, id, Null,
                  IF id \notin DOMAIN quizzes THEN NotFound
                  ELSE IF ~quizzes[id].isPublished THEN Forbidden
                  ELSE successResponse(PublicQuizView(quizzes[id]), 200))
    /\ ReadOnly /\ Idle

\* GET /api/public/quizzes/[id]
PublicGetQuiz(id) ==
    /\ resp' = Handled("publicQuiz", NoUser, id, Null,
                  IF id \notin DOMAIN quizzes THEN NotFound
                  ELSE IF ~quizzes[id].isPublished THEN NotFound
                  ELSE successResponse(PublicQuizView(quizzes[id]), 200))
    /\ ReadOnly /\ Idle

\* the scoring loop written out in submit/route.ts: MCQ and TRUE_FALSE are
\* scored, TEXT answers are only recorded
InlineGrade(question, answers) ==
    LET userAnswer == LookupAnswer(answers, question.id)
        ci == FindCorrectOption(question.options)
        choice == question.type \in {"MCQ", "TRUE_FALSE"}
        isCorrect == /\ choice
                     /\ Truthy(userAnswer)
                     /\ ci # 0
                     /\ userAnswer = question.options[ci].id
    IN  [total |-> IF choice THEN 1 ELSE 0,
         earned |-> IF isCorrect THEN 1 ELSE 0,
         answer |-> [questionId |-> question.id,
                     questionText |-> question.text,
                     userAnswer |-> userAnswer,
                     correctAnswer |->
                         IF choice
                         THEN (IF ci = 0 THEN Null
                               ELSE OrElse(question.options[ci].id, Null))
                         ELSE IF question.type = "TEXT"
                         THEN question.correctAnswer
                         ELSE Null,
                     isCorrect |-> isCorrect,
                     type |-> question.type]]

InlineScore(questions, answers) ==
    LET graded == [i \in 1..Len(questions) |-> InlineGrade(questions[i], answers)]
        score == SumSeq([i \in 1..Len(questions) |-> graded[i].earned])
        totalPoints == SumSeq([i \in 1..Len(questions) |-> graded[i].total])
    IN  [score |-> score,
         totalPoints |-> totalPoints,
         percentage |-> calculatePercentage(score, totalPoints),
         answers |-> [i \in 1..Len(questions) |-> graded[i].answer]]

\* NewAttemptRow as an upsert on (quizId, participantName): a participant's
\* earlier attempt at the quiz is overwritten
NewAttemptRow_Upsert(id, body, scoreResult) ==
    LET earlier == {a \in DOMAIN attempts :
                       /\ attempts[a].quizId = id
                       /\ attempts[a].participantName = body.participantName}
    IN  [id |-> IF earlier = {} THEN AId(nextId.attempt + 1)
                ELSE CHOOSE a \in earlier : TRUE,
         quizId |-> id,
         participantName |-> body.participantName,
         answers |-> body.answers,
         score |-> scoreResult.score,
         totalPoints |-> scoreResult.totalPoints]

\* prisma.attempt.create({ data: { quizId, participantName, answers, score,
\* totalPoints } })
NewAttemptRow(id, body, scoreResult) ==
    [id |-> AId(nextId.attempt + 1),
     quizId |-> id,
     participantName |-> body.participantName,
     answers |-> body.answers,
     score |-> scoreResult.score,
     totalPoints |-> scoreResult.totalPoints]

\* IsOpenForSubmission with the published flag ignored
IsOpenForSubmission_Always(quiz) == TRUE

\* if (!quiz.isPublished) throw ApiError.forbidden(...)
IsOpenForSubmission(quiz) == quiz.isPublished

\* the request passes the limiter, SubmitQuizSchema, the existence test and
\* the published test
SubmitAccepted(id, throttled, body) ==
    /\ ~throttled
    /\ SubmitQuizSchema(body)
    /\ id \in DOMAIN quizzes
    /\ IsOpenForSubmission(quizzes[id])

\* the steps both revisions of the submit handler share; they differ in the
\* scoring they run on the loaded questions
SubmitWith(op, id, throttled, body) ==
    LET accepted == SubmitAccepted(id, throttled, body)
        scoreResult == IF op = "submit"
                       THEN InlineScore(quizzes[id].questions, body.answers)
                       ELSE calculateQuizScore(quizzes[id].questions, body.answers)
        attempt == NewAttemptRow(id, body, scoreResult)
    IN  /\ resp' = Handled(op, NoUser, id, Null,
                      IF throttled THEN TooManyRequests
                      ELSE IF ~SubmitQuizSchema(body) THEN ValidationError
                      ELSE IF id \notin DOMAIN quizzes THEN NotFound
                      ELSE IF ~IsOpenForSubmission(quizzes[id]) THEN Forbidden
                      ELSE successResponse(
                               [attemptId |-> attempt.id,
                                participantName |-> body.participantName,
                                score |-> scoreResult.score,
                                totalPoints |-> scoreResult.totalPoints,
                                percentage |-> scoreResult.percentage,
                                answers |-> scoreResult.answers], 200))
        /\ IF accepted
           THEN /\ attempts' = With(attempts, attempt.id, attempt)
                /\ nextId' = [nextId EXCEPT !.attempt = @ + 1]
                /\ UNCHANGED quizzes
           ELSE ReadOnly
        /\ Idle

\* POST /api/quizzes/[id]/submit, as in submit/route.ts
SubmitQuiz(id, throttled, body) ==
    SubmitWith("submit", id, throttled, body)

\* POST /api/quizzes/[id]/submit, the revision built on calculateQuizScore
SubmitQuizShared(id, throttled, body) ==
    SubmitWith("submitShared", id, throttled, body)

\* GetResult looking the attempt up by attemptId alone
GetResult_AnyQuiz(id, attemptId) ==
    /\ resp' = Handled("result", NoUser, id, attemptId,
                  IF attemptId \notin DOMAIN attempts THEN NotFound
                  ELSE LET attempt == attempts[attemptId]
                           quiz == quizzes[attempt.quizId]
                           scoreResult ==
                               calculateQuizScore(quiz.questions, attempt.answers)
                       IN  successResponse(
                               [attemptId |-> attempt.id,
                                quizId |-> attempt.quizId,
                                quizTitle |-> quiz.title,
                                participantName |-> attempt.participantName,
                                score |-> attempt.score,
                                totalPoints |-> attempt.totalPoints,
                                percentage |-> scoreResult.percentage,
                                answers |-> scoreResult.answers], 200))
    /\ ReadOnly /\ Idle

\* GET /api/quizzes/[id]/result/[attemptId]
GetResult(id, attemptId) ==
    /\ resp' = Handled("result", NoUser, id, attemptId,
                  IF attemptId \notin DOMAIN attempts THEN NotFound
                  ELSE IF attempts[attemptId].quizId # id THEN NotFound
                  ELSE LET attempt == attempts[attemptId]
                           quiz == quizzes[attempt.quizId]
                           scoreResult ==
                               calculateQuizScore(quiz.questions, attempt.answers)
                       IN  successResponse(
                               [attemptId |-> attempt.id,
                                quizId |-> attempt.quizId,
                                quizTitle |-> quiz.title,
                                participantName |-> attempt.participantName,
                                score |-> attempt.score,
                                totalPoints |-> attempt.totalPoints,
                                percentage |-> scoreResult.percentage,
                                answers |-> scoreResult.answers], 200))
    /\ ReadOnly /\ Idle

(***************************************************************************)
(* Spec: requests handled one at a time                                    *)
(***************************************************************************)
Init ==
    /\ quizzes = <<>>
    /\ attempts = <<>>
    /\ nextId = [quiz |-> 0, question |-> 0, option |-> 0, attempt |-> 0]
    /\ resp = NoResp
    /\ args = NoCall
    /\ ret = NoRet
    /\ tx = NoTx
    /\ rateLimitStore = <<>>
    /\ now = 0
    /\ calls = NoCalls

Sessions == Users \cup {NoUser}

\* the values of S a request may carry in a part the handler reads only
\* when the limiter lets the request through: one value stands for all of
\* them in a throttled request, which is answered before that part is read
ReadIfAdmitted(throttled, S) == IF throttled THEN {CHOOSE x \in S : TRUE} ELSE S

Next ==
    \/ Quiet /\ \E u \in Sessions : ListQuizzes(u)
    \/ Quiet /\ \E t \in BOOLEAN :
          \E u \in ReadIfAdmitted(t, Sessions),
             b \in ReadIfAdmitted(t, CreateBodies) :
              /\ CreateAccepted(u, t, b) => RoomFor(1 + Len(b.questions))
              /\ CreateQuiz(u, t, b)
    \/ Quiet /\ \E u \in Sessions, id \in QuizIds : ViewQuiz(u, id)
    \/ Quiet /\ \E t \in BOOLEAN :
          \E u \in ReadIfAdmitted(t, Sessions), id \in ReadIfAdmitted(t, QuizIds),
             b \in ReadIfAdmitted(t, UpdateBodies) :
              /\ (EditAccepted(u, id, t, b) /\ Has(b, "questions"))
                    => RoomFor(Len(b.questions))
              /\ EditQuiz(u, id, t, b)
    \/ Quiet /\ \E t \in BOOLEAN :
          \E u \in ReadIfAdmitted(t, Sessions), id \in ReadIfAdmitted(t, QuizIds) :
              DeleteQuiz(u, id, t)
    \/ Quiet /\ \E u \in Sessions, id \in QuizIds : ViewAttempts(u, id)
    \/ Quiet /\ \E id \in QuizIds : PublicGetQuiz(id)
    \/ Quiet /\ \E t \in BOOLEAN :
          \E id \in ReadIfAdmitted(t, QuizIds) :
              \E b \in ReadIfAdmitted(t, SubmitBodies(id)) :
                  /\ SubmitAccepted(id, t, b) => RoomFor(1)
                  /\ SubmitQuiz(id, t, b)
    \/ Quiet /\ \E id \in QuizIds, a \in AttemptIds : GetResult(id, a)

Spec == Init /\ [][Next]_vars

\* the same routes with the submit handler in its revision on calculateQuizScore
NextRevised ==
    \/ Quiet /\ \E t \in BOOLEAN :
          \E u \in ReadIfAdmitted(t, Sessions),
             b \in ReadIfAdmitted(t, CreateBodies) :
              /\ CreateAccepted(u, t, b) => RoomFor(1 + Len(b.questions))
              /\ CreateQuiz(u, t, b)
    \/ Quiet /\ \E t \in BOOLEAN :
          \E u \in ReadIfAdmitted(t, Sessions), id \in ReadIfAdmitted(t, QuizIds),
             b \in ReadIfAdmitted(t, UpdateBodies) :
              /\ (EditAccepted(u, id, t, b) /\ Has(b, "questions"))
                    => RoomFor(Len(b.questions))
              /\ EditQuiz(u, id, t, b)
    \/ Quiet /\ \E t \in BOOLEAN :
          \E id \in ReadIfAdmitted(t, QuizIds) :
              \E b \in ReadIfAdmitted(t, SubmitBodies(id)) :
                  /\ SubmitAccepted(id, t, b) => RoomFor(1)
                  /\ SubmitQuizShared(id, t, b)
    \/ Quiet /\ \E id \in QuizIds, a \in AttemptIds : GetResult(id, a)

SpecRevised == Init /\ [][NextRevised]_vars

(***************************************************************************)
(* SpecAttempts: the life of attempts.  One owner creates published        *)
(* quizzes, edits and deletes them; participants submit and fetch results. *)
(* Every request passes the limiter; the tables may grow to MaxLifeRows.   *)
(***************************************************************************)
MaxLifeRows == 5   \* quiz, question and attempt rows ever inserted

Owner == "u1"

LifeCreateBodies ==
    { [title |-> <<"A">>, isPublished |-> TRUE,
       questions |-> <<ChoiceBody("MCQ", 0, <<TRUE, FALSE>>)>>] }

LifeUpdateBodies ==
    { [isPublished |-> FALSE],
      [questions |-> <<ChoiceBody("TRUE_FALSE", 0, <<FALSE, TRUE>>)>>] }

\* well-formed submissions for quiz id
LifeSubmitBodies(id) == {b \in SubmitBodies(id) : SubmitQuizSchema(b)}

LifeRoomFor(n) == Rows + n <= MaxLifeRows

NextAttempts ==
    \/ Quiet /\ \E b \in LifeCreateBodies :
          /\ LifeRoomFor(1 + Len(b.questions))
          /\ CreateQuiz(Owner, FALSE, b)
    \/ Quiet /\ \E id \in QuizIds, b \in LifeUpdateBodies :
          /\ (EditAccepted(Owner, id, FALSE, b) /\ Has(b, "questions"))
                => LifeRoomFor(Len(b.questions))
          /\ EditQuiz(Owner, id, FALSE, b)
    \/ Quiet /\ \E id \in QuizIds : DeleteQuiz(Owner, id, FALSE)
    \/ Quiet /\ \E id \in QuizIds : ViewAttempts(Owner, id)
    \/ Quiet /\ \E id \in QuizIds : \E b \in LifeSubmitBodies(id) :
          /\ SubmitAccepted(id, FALSE, b) => LifeRoomFor(1)
          /\ SubmitQuiz(id, FALSE, b)
    \/ Quiet /\ \E id \in QuizIds, a \in AttemptIds : GetResult(id, a)

SpecAttempts == Init /\ [][NextAttempts]_vars

(***************************************************************************)
(* SpecEdit: PUT /api/quizzes/[id] taken statement by statement.  The      *)
(* handler's tests run first; the writes run inside                        *)
(* prisma.$transaction(async (tx) => ...), whose effects reach the tables  *)
(* other requests read only when it commits.  Reads and submissions are    *)
(* handled between any two statements of the transaction.                  *)
(***************************************************************************)
EditUpdateBodies ==
    { [title |-> <<"B">>],
      [questions |-> <<TextBody(1, <<"P">>),
                       ChoiceBody("TRUE_FALSE", 0, <<FALSE, TRUE>>)>>] }

\* a submission that answers no question
EditSubmitBodies == { [participantName |-> <<"n">>, answers |-> <<>>] }

\* the handler up to the transaction: limiter, requireAuth, findUnique,
\* ownership test and UpdateQuizSchema all passed
EditBegin(user, id, body) ==
    /\ tx.pc = "idle"
    /\ EditAccepted(user, id, FALSE, body)
    /\ tx' = [pc |-> "begun", user |-> user, id |-> id, body |-> body,
              row |-> quizzes[id]]
    /\ UNCHANGED <<quizzes, attempts, nextId, resp, args, ret>>
    /\ Quiet

\* the committed row after a deleteMany issued on prisma instead of tx
CommittedAfterDeleteMany_OnClient(quiz) == [quiz EXCEPT !.questions = <<>>]

\* the committed row after tx.question.deleteMany({ where: { quizId: id } }):
\* the deletion stays inside the transaction
CommittedAfterDeleteMany(quiz) == quiz

\* if (questions) await tx.question.deleteMany(...)
TxDeleteQuestions ==
    /\ tx.pc = "begun"
    /\ tx' = [tx EXCEPT !.pc = "deleted",
                        !.row.questions = IF Has(tx.body, "questions")
                                          THEN <<>> ELSE @]
    /\ quizzes' = IF Has(tx.body, "questions")
                  THEN [quizzes EXCEPT ![tx.id] = CommittedAfterDeleteMany(@)]
                  ELSE quizzes
    /\ UNCHANGED <<attempts, nextId, resp, args, ret>>
    /\ Quiet

\* return tx.quiz.update({ where: { id }, data: {...}, include: {...} })
TxUpdateQuiz ==
    /\ tx.pc = "deleted"
    /\ tx' = [tx EXCEPT !.pc = "updated",
                        !.row = UpdatedQuizRow(tx.row, tx.body)]
    /\ nextId' = IF Has(tx.body, "questions")
                 THEN [nextId EXCEPT
                         !.question = @ + Len(tx.body.questions),
                         !.option = @ + CountOptions(tx.body.questions)]
                 ELSE nextId
    /\ UNCHANGED <<quizzes, attempts, resp, args, ret>>
    /\ Quiet

\* the callback returns: the transaction commits and the handler answers
\* with the updated quiz
TxCommit ==
    /\ tx.pc = "updated"
    /\ quizzes' = [quizzes EXCEPT ![tx.id] = tx.row]
    /\ resp' = Handled("edit", tx.user, tx.id, Null,
                       successResponse(tx.row, 200))
    /\ tx' = NoTx
    /\ UNCHANGED <<attempts, nextId, args, ret>>
    /\ Quiet

NextEdit ==
    \/ Quiet /\ \E b \in LifeCreateBodies :
          /\ LifeRoomFor(1 + Len(b.questions))
          /\ CreateQuiz(Owner, FALSE, b)
    \/ Quiet /\ \E id \in QuizIds, b \in EditUpdateBodies :
          /\ Has(b, "questions") => LifeRoomFor(Len(b.questions))
          /\ EditBegin(Owner, id, b)
    \/ Quiet /\ TxDeleteQuestions
    \/ Quiet /\ TxUpdateQuiz
    \/ Quiet /\ TxCommit
    \/ Quiet /\ \E id \in QuizIds : PublicGetQuiz(id)
    \/ Quiet /\ \E id \in QuizIds : ViewQuiz(Owner, id)
    \/ Quiet /\ \E id \in QuizIds, b \in EditSubmitBodies :
          /\ SubmitAccepted(id, FALSE, b) => LifeRoomFor(1)
          /\ SubmitQuiz(id, FALSE, b)
    \/ Quiet /\ \E id \in QuizIds, a \in AttemptIds : GetResult(id, a)

SpecEdit == Init /\ [][NextEdit]_vars

(***************************************************************************)
(* SpecForms: the owner saves quizzes whose question lists go beyond what  *)
(* the quiz form sends: any body the API accepts can be posted directly.   *)
(***************************************************************************)
\* a TEXT question sent with an option list
TextBodyWithOptions(order, correct, flags) ==
    [text |-> <<"Q">>, type |-> "TEXT", order |-> order,
     correctAnswer |-> correct,
     options |-> [j \in 1..Len(flags) |->
                     [text |-> <<"t", Digit[j]>>, isCorrect |-> flags[j]]]]

FormQuestionBodies ==
    { <<ChoiceBody("MCQ", 0, <<TRUE, FALSE>>)>>,
      <<ChoiceBody("MCQ", 0, <<TRUE, TRUE>>)>>,
      <<ChoiceBody("MCQ", 0, <<TRUE>>)>>,
      <<ChoiceBody("MCQ", 0, <<FALSE, FALSE>>)>>,
      <<ChoiceBody("MCQ", 0, <<>>)>>,
      <<ChoiceBody("TRUE_FALSE", 0, <<FALSE, TRUE>>)>>,
      <<ChoiceBody("TRUE_FALSE", 0, <<TRUE, FALSE, FALSE>>)>>,
      <<TextBody(0, <<"P">>)>>,
      <<TextBodyWithOptions(0, <<"P">>, <<TRUE>>)>> }

NextForms ==
    \/ Quiet /\ \E qs \in FormQuestionBodies :
          /\ LifeRoomFor(1 + Len(qs))
          /\ CreateQuiz(Owner, FALSE, [title |-> <<"A">>, questions |-> qs])
    \/ Quiet /\ \E id \in QuizIds, qs \in FormQuestionBodies :
          /\ EditAccepted(Owner, id, FALSE, [questions |-> qs])
                => LifeRoomFor(Len(qs))
          /\ EditQuiz(Owner, id, FALSE, [questions |-> qs])
    \/ Quiet /\ \E id \in QuizIds : ViewQuiz(Owner, id)

SpecForms == Init /\ [][NextForms]_vars

(***************************************************************************)
(* SpecSteps: the admin handlers taken statement by statement.  A request  *)
(* occupies slot r1 from the start of its handler until the handler throws *)
(* or returns; what it did to the tables and the response it got are       *)
(* recorded when it leaves.                                                *)
(***************************************************************************)
\* GET /api/quizzes
ListProgram == <<"requireAuth", "findQuizzes", "respond">>

\* POST /api/quizzes
CreateProgram ==
    <<"rateLimit", "requireAuth", "readBody", "validate", "createQuiz", "respond">>

\* GET /api/quizzes/[id]: findUnique includes the questions and their options
ViewProgram ==
    <<"requireAuth", "findQuizWithQuestions", "existsTest", "ownerTest", "respond">>

\* EditProgram with the session looked up after the quiz was loaded
EditProgram_AuthAfterLoad ==
    <<"rateLimit", "readBody", "findQuiz", "requireAuth", "existsTest",
      "ownerTest", "validate", "transaction", "respond">>

\* PUT /api/quizzes/[id]
EditProgram ==
    <<"rateLimit", "requireAuth", "readBody", "findQuiz", "existsTest",
      "ownerTest", "validate", "transaction", "respond">>

\* DELETE /api/quizzes/[id]
DeleteProgram ==
    <<"rateLimit", "requireAuth", "findQuiz", "existsTest", "ownerTest",
      "deleteQuiz", "respond">>

\* GET /api/quizzes/[id]/attempts: requireQuizOwnership, then findMany
AttemptsProgram ==
    <<"requireAuth", "findQuizOwnership", "existsTest", "ownerTest",
      "findAttempts", "respond">>

Program(op) ==
    CASE op = "list" -> ListProgram
      [] op = "create" -> CreateProgram
      [] op = "view" -> ViewProgram
      [] op = "edit" -> EditProgram
      [] op = "delete" -> DeleteProgram
      [] op = "attempts" -> AttemptsProgram

\* the statement the request c executes next
Statement(c) == Program(c.op)[c.pc]

\* the statements the request c has executed
Executed(c) == {Program(c.op)[i] : i \in 1..(c.pc - 1)}

\* the handler of c leaves at statement st: a 429 is returned, an error is
\* thrown, or the response is returned
ExitsAt(c, st) ==
    CASE st = "rateLimit" -> c.throttled
      [] st = "requireAuth" -> c.user = NoUser
      [] st = "existsTest" -> c.id \notin DOMAIN quizzes
      [] st = "ownerTest" -> ~IsOwner(quizzes[c.id], c.user)
      [] st = "validate" -> IF c.op = "create" THEN ~CreateQuizSchema(c.body)
                            ELSE ~UpdateQuizSchema(c.body)
      [] st = "respond" -> TRUE
      [] OTHER -> FALSE

\* the handler of c as a whole
Complete(c) ==
    CASE c.op = "list" -> ListQuizzes(c.user)
      [] c.op = "create" -> CreateQuiz(c.user, c.throttled, c.body)
      [] c.op = "view" -> ViewQuiz(c.user, c.id)
      [] c.op = "edit" -> EditQuiz(c.user, c.id, c.throttled, c.body)
      [] c.op = "delete" -> DeleteQuiz(c.user, c.id, c.throttled)
      [] c.op = "attempts" -> ViewAttempts(c.user, c.id)

\* a request reaches its handler
BeginCall(s, op, user, id, throttled, body) ==
    /\ calls[s].pc = 0
    /\ calls' = [calls EXCEPT ![s] = [pc |-> 1, op |-> op, user |-> user,
                                      id |-> id, throttled |-> throttled,
                                      body |-> body]]
    /\ UNCHANGED <<quizzes, attempts, nextId, resp, args, ret, tx,
                   rateLimitStore, now>>

\* the handler in slot s executes its next statement
StepCall(s) ==
    LET c == calls[s]
    IN  /\ c.pc > 0
        /\ IF ExitsAt(c, Statement(c))
           THEN /\ Complete(c)
                /\ calls' = [calls EXCEPT ![s] = [pc |-> 0]]
           ELSE /\ calls' = [calls EXCEPT ![s].pc = @ + 1]
                /\ UNCHANGED <<quizzes, attempts, nextId, resp, args, ret, tx>>
        /\ UNCHANGED <<rateLimitStore, now>>

StepCreateBodies ==
    LifeCreateBodies \cup {[title |-> Empty, questions |-> <<TextBody(0, <<"P">>)>>]}

StepUpdateBodies == {[title |-> <<"B">>], [title |-> Empty]}

NextSteps ==
    \/ \E u \in Sessions : BeginCall("r1", "list", u, Null, FALSE, Null)
    \/ \E u \in {Owner, NoUser}, t \in BOOLEAN, b \in StepCreateBodies :
          /\ CreateAccepted(u, t, b) => LifeRoomFor(1 + Len(b.questions))
          /\ BeginCall("r1", "create", u, Null, t, b)
    \/ \E u \in Sessions, id \in QuizIds :
          BeginCall("r1", "view", u, id, FALSE, Null)
    \/ \E u \in Sessions, id \in QuizIds, t \in BOOLEAN, b \in StepUpdateBodies :
          BeginCall("r1", "edit", u, id, t, b)
    \/ \E u \in Sessions, id \in QuizIds, t \in BOOLEAN :
          BeginCall("r1", "delete", u, id, t, Null)
    \/ \E u \in Sessions, id \in QuizIds :
          BeginCall("r1", "attempts", u, id, FALSE, Null)
    \/ StepCall("r1")

SpecSteps == Init /\ [][NextSteps]_vars

(***************************************************************************)
(* SpecLimit: the rate limiter of src/lib/rate-limit.ts in front of the    *)
(* submit and create handlers.  rateLimitStore is the module's Map, now    *)
(* the value of Date.now() in milliseconds.                                *)
(***************************************************************************)
MaxWindows == 1   \* the clock runs to the end of this many windows
MaxOver == 1      \* requests sent on after a key has gone over its limit

\* RATE_LIMITS, the two configurations the modelled handlers pass
RATE_LIMITS ==
    [quizSubmit |-> [limit |-> 10, windowSeconds |-> 60,
                     identifier |-> "quiz-submit"],
     admin |-> [limit |-> 30, windowSeconds |-> 60, identifier |-> "admin"]]

RECURSIVE FirstListed(_)
\* forwarded.split(",")[0]
FirstListed(s) ==
    IF s = <<>> \/ Head(s) = "," THEN <<>>
    ELSE <<Head(s)>> \o FirstListed(Tail(s))

\* forwarded?.split(",")[0]?.trim() || "unknown"
ClientIp(forwarded) ==
    OrElse(IF forwarded = Null THEN Null ELSE trim(FirstListed(forwarded)),
           <<"u", "n", "k", "n", "o", "w", "n">>)

\* `${identifier}:${ip}`; no identifier of RATE_LIMITS holds a colon, so
\* the pair stands for the string
LimitKey(forwarded, config) == <<config.identifier, ClientIp(forwarded)>>

\* !entry || entry.resetTime < now
WindowOver(key) ==
    IF key \notin DOMAIN rateLimitStore THEN TRUE
    ELSE rateLimitStore[key].resetTime < now

\* rateLimit testing the count before incrementing it
rateLimit_TestBeforeIncrement(forwarded, config) ==
    LET key == LimitKey(forwarded, config)
        entry == IF WindowOver(key)
                 THEN [count |-> 1,
                       resetTime |-> now + config.windowSeconds * 1000]
                 ELSE [rateLimitStore[key] EXCEPT !.count = @ + 1]
    IN  [allowed |-> IF WindowOver(key) THEN TRUE
                     ELSE rateLimitStore[key].count <= config.limit,
         store |-> With(rateLimitStore, key, entry)]

\* rateLimit moving the window on with every counted request
rateLimit_Sliding(forwarded, config) ==
    LET key == LimitKey(forwarded, config)
        entry == IF WindowOver(key)
                 THEN [count |-> 1,
                       resetTime |-> now + config.windowSeconds * 1000]
                 ELSE [count |-> rateLimitStore[key].count + 1,
                       resetTime |-> now + config.windowSeconds * 1000]
    IN  [allowed |-> entry.count <= config.limit,
         store |-> With(rateLimitStore, key, entry)]

\* rateLimit(request, config): whether the request is let through (the
\* function returns null), and the store it leaves
rateLimit(forwarded, config) ==
    LET key == LimitKey(forwarded, config)
        entry == IF WindowOver(key)
                 THEN [count |-> 1,
                       resetTime |-> now + config.windowSeconds * 1000]
                 ELSE [rateLimitStore[key] EXCEPT !.count = @ + 1]
    IN  [allowed |-> entry.count <= config.limit,
         store |-> With(rateLimitStore, key, entry)]

\* the request is sent: its key has not gone MaxOver over its limit
Sendable(forwarded, config) ==
    LET key == LimitKey(forwarded, config)
    IN  IF WindowOver(key) THEN TRUE
        ELSE rateLimitStore[key].count < config.limit + MaxOver

\* the x-forwarded-for headers of the requests: none, one address, and a
\* list of addresses that starts with the same one
Forwarded == {Null, <<"a">>, <<" ", "a", ",", "b">>}

LimitSubmitBodies ==
    EditSubmitBodies \cup {[participantName |-> Empty, answers |-> <<>>]}

\* POST /api/quizzes/[id]/submit behind rateLimit(request, quizSubmit)
LimitedSubmit(forwarded, id, body) ==
    LET verdict == rateLimit(forwarded, RATE_LIMITS.quizSubmit)
    IN  /\ Sendable(forwarded, RATE_LIMITS.quizSubmit)
        /\ SubmitAccepted(id, ~verdict.allowed, body) => RoomFor(1)
        /\ rateLimitStore' = verdict.store
        /\ SubmitQuiz(id, ~verdict.allowed, body)
        /\ UNCHANGED <<now, calls>>

\* POST /api/quizzes behind rateLimit(request, admin)
LimitedCreate(forwarded, user, body) ==
    LET verdict == rateLimit(forwarded, RATE_LIMITS.admin)
    IN  /\ RoomFor(1 + Len(body.questions))
        /\ rateLimitStore' = verdict.store
        /\ CreateQuiz(user, ~verdict.allowed, body)
        /\ UNCHANGED <<now, calls>>

\* the instants at which requests arrive: the start, and for each window
\* length that has gone by that instant and the millisecond after it
Instants ==
    {0} \cup UNION {{k * 60000, k * 60000 + 1} : k \in 1..MaxWindows}

\* time passes
Tick ==
    /\ \E t \in Instants : t > now /\ now' = t
    /\ UNCHANGED <<quizzes, attempts, nextId, resp, args, ret, tx,
                   rateLimitStore, calls>>

\* the callback of setInterval: entries whose window is over are deleted
Cleanup ==
    /\ \E key \in DOMAIN rateLimitStore : rateLimitStore[key].resetTime < now
    /\ rateLimitStore' =
          [key \in {k \in DOMAIN rateLimitStore :
                       ~(rateLimitStore[k].resetTime < now)} |->
              rateLimitStore[key]]
    /\ UNCHANGED <<quizzes, attempts, nextId, resp, args, ret, tx, now, calls>>

NextLimit ==
    \/ \E b \in LifeCreateBodies : LimitedCreate(<<"a">>, Owner, b)
    \/ \E f \in Forwarded, b \in LimitSubmitBodies :
          LimitedSubmit(f, ZId(1), b)
    \/ Tick
    \/ Cleanup

SpecLimit == Init /\ [][NextLimit]_vars

(***************************************************************************)
(* SpecRace: POST /api/quizzes/[id]/submit taken await by await.  Between  *)
(* the handler's load of the quiz and its insert of the attempt the owner's *)
(* edits and deletes, and other submissions, are handled.                  *)
(***************************************************************************)
\* Attempt.quizId references Quiz.id: an attempt can be inserted only for a
\* quiz row that exists
ForeignKeyHolds(quizId) == quizId \in DOMAIN quizzes

\* rateLimit, await request.json(), SubmitQuizSchema.safeParse
SubmitArrive(s, id, throttled, body) ==
    /\ calls[s].pc = 0
    /\ IF throttled \/ ~SubmitQuizSchema(body)
       THEN SubmitQuiz(id, throttled, body) /\ UNCHANGED calls
       ELSE /\ calls' = [calls EXCEPT ![s] = [pc |-> 1, op |-> "submit",
                                              id |-> id, body |-> body]]
            /\ UNCHANGED <<quizzes, attempts, nextId, resp, args, ret, tx>>
    /\ UNCHANGED <<rateLimitStore, now>>

\* await prisma.quiz.findUnique, the existence test and the published test
SubmitLoad(s) ==
    LET c == calls[s]
        open == IF c.id \in DOMAIN quizzes
                THEN IsOpenForSubmission(quizzes[c.id]) ELSE FALSE
    IN  /\ c.pc = 1
        /\ IF open
           THEN /\ calls' = [calls EXCEPT ![s] =
                                [pc |-> 2, op |-> "submit", id |-> c.id,
                                 body |-> c.body, quiz |-> quizzes[c.id]]]
                /\ UNCHANGED resp
           ELSE /\ calls' = [calls EXCEPT ![s] = [pc |-> 0]]
                /\ resp' = Handled("submit", NoUser, c.id, Null,
                              IF c.id \notin DOMAIN quizzes THEN NotFound
                              ELSE Forbidden)
        /\ UNCHANGED <<quizzes, attempts, nextId, args, ret, tx,
                       rateLimitStore, now>>

\* the scoring of the loaded questions, await prisma.attempt.create and the
\* response; the error of a failed insert is answered by withErrorHandler
SubmitInsert(s) ==
    LET c == calls[s]
        scoreResult == InlineScore(c.quiz.questions, c.body.answers)
        attempt == NewAttemptRow(c.id, c.body, scoreResult)
        failed == [kind |-> "throw",
                   error |-> [class |-> "Error",
                              name |-> <<"Prisma", "Client", "Known",
                                         "Request", "Error">>]]
    IN  /\ c.pc = 2
        /\ calls' = [calls EXCEPT ![s] = [pc |-> 0]]
        /\ IF ForeignKeyHolds(c.id)
           THEN /\ attempts' = With(attempts, attempt.id, attempt)
                /\ nextId' = [nextId EXCEPT !.attempt = @ + 1]
                /\ resp' = Handled("submit", NoUser, c.id, Null,
                              successResponse(
                                  [attemptId |-> attempt.id,
                                   participantName |-> c.body.participantName,
                                   score |-> scoreResult.score,
                                   totalPoints |-> scoreResult.totalPoints,
                                   percentage |-> scoreResult.percentage,
                                   answers |-> scoreResult.answers], 200))
           ELSE /\ resp' = Handled("submit", NoUser, c.id, Null,
                              withErrorHandler(failed))
                /\ UNCHANGED <<attempts, nextId>>
        /\ UNCHANGED <<quizzes, args, ret, tx, rateLimitStore, now>>

\* submissions being handled, each of which may still insert a row
Pending == Cardinality({s \in Slots : calls[s].pc > 0})

NextRace ==
    \/ Quiet /\ \E b \in LifeCreateBodies :
          /\ LifeRoomFor(1 + Len(b.questions) + Pending)
          /\ CreateQuiz(Owner, FALSE, b)
    \/ Quiet /\ \E id \in QuizIds, p \in BOOLEAN :
          EditQuiz(Owner, id, FALSE, [isPublished |-> p])
    \/ Quiet /\ \E id \in QuizIds : DeleteQuiz(Owner, id, FALSE)
    \/ \E s \in Slots, id \in QuizIds, t \in BOOLEAN,
          b \in LimitSubmitBodies :
          /\ LifeRoomFor(1 + Pending)
          /\ SubmitArrive(s, id, t, b)
    \/ \E s \in Slots : SubmitLoad(s)
    \/ \E s \in Slots : SubmitInsert(s)

SpecRace == Init /\ [][NextRace]_vars

(***************************************************************************)
(* Properties of the routes                                                *)
(***************************************************************************)
SubmitOps == {"submit", "submitShared"}
Storage == <<quizzes, attempts, nextId>>

\* the last request was a submission that stored an attempt
Submitted200 == resp.op \in SubmitOps /\ resp.status = 200

\* C5: a submission to a published quiz stores the score and totalPoints,
\* and returns the score, totalPoints and percentage, that calculateQuizScore
\* computes for the quiz's questions and the submitted answers; the stored
\* totalPoints is the number of questions, TEXT questions included.
C5_SubmitStoresEngineScore ==
    Submitted200 =>
        LET attempt == attempts[resp.data.attemptId]
            questions == quizzes[resp.quizId].questions
            engine == calculateQuizScore(questions, attempt.answers)
        IN  /\ attempt.score = engine.score
            /\ attempt.totalPoints = engine.totalPoints
            /\ resp.data.score = engine.score
            /\ resp.data.totalPoints = engine.totalPoints
            /\ resp.data.percentage = engine.percentage
            /\ attempt.totalPoints = Len(questions)

\* C6: requireQuizOwnership fails with NotFound when no quiz has the id,
\* with Forbidden when the quiz exists and another user created it, and
\* otherwise returns the quiz's id, title, createdById and isPublished; the
\* handler built on it answers 404, 403 or 200 accordingly and the storage
\* is the same after the call as before.
C6_GuardOutcomes ==
    /\ \A id \in QuizIds, u \in Users :
          LET r == requireQuizOwnership(id, u)
          IN  /\ (r.kind = "NotFound") <=> (id \notin DOMAIN quizzes)
              /\ (r.kind = "Forbidden") <=>
                    (id \in DOMAIN quizzes /\ quizzes[id].createdById # u)
              /\ (r.kind = "Ok") <=>
                    (id \in DOMAIN quizzes /\ quizzes[id].createdById = u)
              /\ r.kind = "Ok" =>
                    /\ DOMAIN r.quiz = {"id", "title", "createdById", "isPublished"}
                    /\ r.quiz.id = id
                    /\ r.quiz.title = quizzes[id].title
                    /\ r.quiz.createdById = u
                    /\ r.quiz.isPublished = quizzes[id].isPublished
    /\ (resp.op = "attempts" /\ resp.user \in Users) =>
          /\ resp.status \in {404, 403, 200}
          /\ (resp.status = 404) <=> (resp.quizId \notin DOMAIN quizzes)
          /\ (resp.status = 200) <=>
                (resp.quizId \in DOMAIN quizzes
                 /\ quizzes[resp.quizId].createdById = resp.user)
          /\ resp.status = 200 =>
                /\ resp.data.quizId = resp.quizId
                /\ resp.data.quizTitle = quizzes[resp.quizId].title

C6_GuardReadOnly == resp'.op = "attempts" => UNCHANGED Storage

C6_OwnershipGuard == [](C6_GuardOutcomes) /\ [][C6_GuardReadOnly]_vars

\* the guard refused a user who is not the owner of an existing quiz
C6_Witness ==
    /\ resp.op = "attempts"
    /\ resp.status = 403
    /\ resp.quizId \in DOMAIN quizzes
    /\ resp.user \in Users
    /\ quizzes[resp.quizId].createdById # resp.user

\* C7: a quiz row (title, description, published flag, questions, options)
\* changes or disappears only in a step that handles an edit or delete of
\* that quiz sent by the user who created it; an edit or delete that the
\* limiter lets through from any other user is answered Forbidden and
\* leaves quizzes, questions and attempts as they were.
C7_OnlyOwnerChanges ==
    /\ \A id \in DOMAIN quizzes :
          (id \notin DOMAIN quizzes' \/ quizzes'[id] # quizzes[id]) =>
              /\ resp'.op \in {"edit", "delete"}
              /\ resp'.quizId = id
              /\ resp'.user = quizzes[id].createdById
              /\ resp'.status = 200
    /\ (/\ resp'.op \in {"edit", "delete"}
        /\ resp'.quizId \in DOMAIN quizzes
        /\ resp'.user \in Users
        /\ resp'.user # quizzes[resp'.quizId].createdById) =>
              /\ resp'.status = 403
              /\ resp'.code = "FORBIDDEN"
              /\ UNCHANGED Storage

C7_OwnerOnlyMutation == [][C7_OnlyOwnerChanges]_vars

\* another user's edit of a quiz that has an attempt was refused
C7_Witness ==
    /\ resp.op = "edit"
    /\ resp.status = 403
    /\ resp.quizId \in DOMAIN quizzes
    /\ resp.user \in Users
    /\ resp.user # quizzes[resp.quizId].createdById
    /\ \E a \in DOMAIN attempts : attempts[a].quizId = resp.quizId

\* C8: a submission that reaches the published check (it is not throttled
\* and its body is well-formed) for a quiz whose isPublished is false is
\* answered Forbidden; no submission to an unpublished quiz creates an
\* attempt, and every attempt row appears in a step that handles a
\* submission to a quiz that is published in that step.
C8_UnpublishedStep ==
    /\ (/\ resp'.op \in SubmitOps
        /\ resp'.quizId \in DOMAIN quizzes
        /\ ~quizzes[resp'.quizId].isPublished) =>
              /\ attempts' = attempts
              /\ resp'.status \in {403, 400, 429}
              /\ resp'.code \notin {"VALIDATION_ERROR", "TOO_MANY_REQUESTS"}
                    => resp'.code = "FORBIDDEN" /\ resp'.status = 403
    /\ \A a \in DOMAIN attempts' \ DOMAIN attempts :
          /\ resp'.op \in SubmitOps
          /\ resp'.status = 200
          /\ attempts'[a].quizId = resp'.quizId
          /\ resp'.quizId \in DOMAIN quizzes
          /\ quizzes[resp'.quizId].isPublished

C8_NoAttemptWhenUnpublished == [][C8_UnpublishedStep]_vars

\* a well-formed submission to an unpublished quiz was refused
C8_Witness ==
    /\ resp.op = "submit"
    /\ resp.code = "FORBIDDEN"
    /\ resp.quizId \in DOMAIN quizzes
    /\ ~quizzes[resp.quizId].isPublished
    /\ attempts = <<>>

\* the correct answer of a stored question, as grading reveals it
RevealedAnswer(q) ==
    IF q.type = "TEXT" THEN q.correctAnswer
    ELSE IF FlaggedOptions(q) = {} THEN Null
    ELSE q.options[CHOOSE j \in FlaggedOptions(q) :
                      \A k \in FlaggedOptions(q) : j <= k].id

\* the questions that differ from q at most in which options are flagged
\* correct and in the expected TEXT answer
Reflagged(q) ==
    {[q EXCEPT !.correctAnswer = c,
               !.options = [j \in 1..Len(q.options) |->
                               [q.options[j] EXCEPT !.isCorrect = flags[j]]]] :
        c \in {Null, <<"P">>, <<"p", " ">>},
        flags \in [1..Len(q.options) -> BOOLEAN]}

RECURSIVE ReflaggedLists(_)
ReflaggedLists(qs) ==
    IF qs = <<>> THEN {<<>>}
    ELSE {<<q>> \o rest : q \in Reflagged(Head(qs)),
                          rest \in ReflaggedLists(Tail(qs))}

\* the quizzes that differ from quiz only in their correct answers
AnswerVariants(quiz) ==
    {[quiz EXCEPT !.questions = qs] : qs \in ReflaggedLists(quiz.questions)}

\* C9: the public quiz fetch reveals no correct answer: its questions carry
\* no correctAnswer and its options no isCorrect, and every quiz that differs
\* from the fetched one only in its correct answers gets the same response;
\* the submit and result responses do carry each question's correct answer.
C9_PublicFetchHidesAnswers ==
    /\ (resp.op = "publicQuiz" /\ resp.status = 200) =>
          /\ \A i \in 1..Len(resp.data.questions) :
                /\ "correctAnswer" \notin DOMAIN resp.data.questions[i]
                /\ \A j \in 1..Len(resp.data.questions[i].options) :
                      "isCorrect" \notin DOMAIN resp.data.questions[i].options[j]
          /\ \A v \in AnswerVariants(quizzes[resp.quizId]) :
                PublicQuizView(v) = resp.data
    /\ (resp.status = 200 /\ resp.op \in SubmitOps \cup {"result"}) =>
          LET questions == quizzes[resp.quizId].questions
          IN  /\ Len(resp.data.answers) = Len(questions)
              /\ \A i \in 1..Len(questions) :
                    resp.data.answers[i].correctAnswer = RevealedAnswer(questions[i])

\* a published quiz with a flagged option and an expected TEXT answer was
\* fetched publicly
C9_Witness ==
    /\ resp.op = "publicQuiz"
    /\ resp.status = 200
    /\ \E i \in 1..Len(quizzes[resp.quizId].questions) :
          quizzes[resp.quizId].questions[i].type = "TEXT"
    /\ \E i \in 1..Len(quizzes[resp.quizId].questions) :
          FlaggedOptions(quizzes[resp.quizId].questions[i]) # {}

\* a public request for an existing quiz that is not published, answered by
\* the handler proper (not by the limiter or the schema)
PublicOnUnpublished ==
    /\ resp.op \in SubmitOps \cup {"publicQuiz"}
    /\ resp.quizId \in DOMAIN quizzes
    /\ ~quizzes[resp.quizId].isPublished
    /\ resp.code \notin {"VALIDATION_ERROR", "TOO_MANY_REQUESTS"}

\* C10 as stated: a public request that targets an unpublished quiz fails
\* with Forbidden, for the public quiz fetch and for submit alike, and so
\* differs from the NotFound of an unknown quiz id.
C10_UnpublishedIsForbidden ==
    PublicOnUnpublished => resp.status = 403 /\ resp.code = "FORBIDDEN"

\* C10 amended: submit answers Forbidden for an unpublished quiz and NotFound
\* for an unknown id; the public quiz fetch answers NotFound in both cases.
C10_UnpublishedByRoute ==
    /\ (PublicOnUnpublished /\ resp.op \in SubmitOps) =>
          resp.status = 403 /\ resp.code = "FORBIDDEN"
    /\ (PublicOnUnpublished /\ resp.op = "publicQuiz") =>
          resp.status = 404 /\ resp.code = "NOT_FOUND"
    /\ (/\ resp.op \in SubmitOps \cup {"publicQuiz"}
        /\ resp.quizId \notin DOMAIN quizzes
        /\ resp.code \notin {"VALIDATION_ERROR", "TOO_MANY_REQUESTS"}) =>
          resp.status = 404 /\ resp.code = "NOT_FOUND"

\* the public fetch of an existing, unpublished quiz answered NotFound
C10_Witness ==
    /\ resp.op = "publicQuiz"
    /\ resp.quizId \in DOMAIN quizzes
    /\ ~quizzes[resp.quizId].isPublished
    /\ resp.status = 404

(***************************************************************************)
(* Properties of attempts                                                  *)
(***************************************************************************)
\* the last request was a submission answered 200
SubmittedNow == resp'.op \in SubmitOps /\ resp'.status = 200

\* C11: an attempt that exists keeps its participantName, answers, score,
\* totalPoints and quizId through every request; it leaves the table only
\* in the step that deletes its quiz; a successful submission adds exactly
\* one attempt, the one it reports, and no other request adds any.
C11_AttemptStep ==
    /\ \A a \in DOMAIN attempts :
          IF a \in DOMAIN attempts'
          THEN attempts'[a] = attempts[a]
          ELSE /\ resp'.op = "delete"
               /\ resp'.status = 200
               /\ resp'.quizId = attempts[a].quizId
               /\ resp'.quizId \notin DOMAIN quizzes'
    /\ IF SubmittedNow
       THEN /\ DOMAIN attempts' \ DOMAIN attempts = {resp'.data.attemptId}
            /\ attempts'[resp'.data.attemptId].quizId = resp'.quizId
       ELSE DOMAIN attempts' \subseteq DOMAIN attempts

C11_AttemptsImmutable == [][C11_AttemptStep]_vars

\* a second submission was stored while the first attempt, made before the
\* quiz's questions were replaced, is still there
C11_Witness ==
    /\ resp.op = "submit"
    /\ resp.status = 200
    /\ \E a \in DOMAIN attempts :
          /\ a # resp.data.attemptId
          /\ attempts[a].quizId = resp.quizId
          /\ attempts[a].score = 1
          /\ \A i \in 1..Len(quizzes[resp.quizId].questions) :
                quizzes[resp.quizId].questions[i].id \notin DOMAIN attempts[a].answers

\* the attempt ids handed out so far
IssuedAttemptIds == {AId(n) : n \in 1..nextId.attempt}

\* every attempt belongs to a stored quiz
NoOrphanAttempt == \A a \in DOMAIN attempts : attempts[a].quizId \in DOMAIN quizzes

C12_DeleteStep ==
    /\ (resp'.op = "delete" /\ resp'.status = 200) =>
          /\ resp'.quizId \in DOMAIN quizzes
          /\ resp'.quizId \notin DOMAIN quizzes'
          /\ \A a \in DOMAIN attempts' : attempts'[a].quizId # resp'.quizId
    /\ \A a \in DOMAIN attempts' \ DOMAIN attempts : a \notin IssuedAttemptIds
    /\ (/\ resp'.op = "result"
        /\ resp'.attemptId \in IssuedAttemptIds
        /\ resp'.attemptId \notin DOMAIN attempts) =>
          resp'.status = 404 /\ resp'.code = "NOT_FOUND"

ReadOps == {"publicQuiz", "view", "submit", "result"}

\* the question ids a successful read shows, in the order shown
ObservedQuestionIds ==
    IF resp.op \in {"publicQuiz", "view"}
    THEN [i \in 1..Len(resp.data.questions) |-> resp.data.questions[i].id]
    ELSE [i \in 1..Len(resp.data.answers) |-> resp.data.answers[i].questionId]

QuestionIdsOf(quiz) == [i \in 1..Len(quiz.questions) |-> quiz.questions[i].id]

\* a read that succeeded shows at least one question, and exactly the
\* question set that is committed for the quiz
ReadSeesCommittedSet ==
    (resp.op \in ReadOps /\ resp.status = 200)
        => /\ Len(ObservedQuestionIds) >= 1
           /\ ObservedQuestionIds = QuestionIdsOf(quizzes[resp.quizId])

\* the committed question set of a quiz changes in one step only, the commit
\* of the edit, and it changes to the whole set of the edit's body
C13_CommitStep ==
    \A id \in DOMAIN quizzes \cap DOMAIN quizzes' :
        quizzes'[id].questions # quizzes[id].questions
            => /\ tx.pc = "updated" /\ tx.id = id /\ tx' = NoTx
               /\ Has(tx.body, "questions")
               /\ Len(quizzes'[id].questions) = Len(tx.body.questions)
               /\ \A i \in 1..Len(tx.body.questions) :
                     \E j \in 1..Len(quizzes'[id].questions) :
                        /\ quizzes'[id].questions[j].order
                              = tx.body.questions[i].order
                        /\ quizzes'[id].questions[j].type
                              = tx.body.questions[i].type

\* C13: an edit that replaces questions is atomic for concurrent reads: a
\* read handled while the edit is under way shows the whole earlier question
\* set, a read after the commit shows the whole new set, and no read shows
\* zero questions or a part of the new set.
C13_EditIsAtomic == [](ReadSeesCommittedSet) /\ [][C13_CommitStep]_vars

\* a read answered while the edit had already deleted and re-created the
\* questions inside its transaction, showing the earlier question
C13_Witness ==
    /\ tx.pc = "updated"
    /\ Has(tx.body, "questions")
    /\ resp.op \in ReadOps /\ resp.status = 200
    /\ resp.quizId = tx.id
    /\ ObservedQuestionIds = QuestionIdsOf(quizzes[tx.id])
    /\ ObservedQuestionIds # QuestionIdsOf(tx.row)

\* a read after the commit showing both questions of the new set
C13_WitnessAfter ==
    /\ tx.pc = "idle"
    /\ resp.op = "publicQuiz" /\ resp.status = 200
    /\ Len(ObservedQuestionIds) = 2


(***************************************************************************)
(* Properties of validation                                                *)
(***************************************************************************)
\* a submission body with participantName missing, empty or longer than 100
\* characters, or with no answer map
SubmitViolates(b) ==
    \/ ~Has(b, "participantName")
    \/ Len(b.participantName) = 0
    \/ Len(b.participantName) > 100
    \/ ~Has(b, "answers")

\* a create or edit body with an empty title, or with an MCQ or TRUE_FALSE
\* question none of whose options is flagged correct
QuizViolates(b) ==
    \/ Has(b, "title") /\ b.title = Empty
    \/ /\ Has(b, "questions")
       /\ \E i \in 1..Len(b.questions) :
             /\ b.questions[i].type \in {"MCQ", "TRUE_FALSE"}
             /\ \A j \in 1..Len(b.questions[i].options) :
                   ~b.questions[i].options[j].isCorrect

Rejected400 ==
    ~resp'.success /\ resp'.status = 400 /\ resp'.code = "VALIDATION_ERROR"

\* the requests that can have produced the step are tried with every
\* violating body; a 429 or 401 was answered before the body was read
C14_ValidationStep ==
    /\ (resp'.op = "submit" /\ resp'.status # 429) =>
          \A b \in {x \in SubmitBodies(resp'.quizId) : SubmitViolates(x)} :
             SubmitQuiz(resp'.quizId, FALSE, b)
                 => Rejected400 /\ UNCHANGED Storage
    /\ (resp'.op = "create" /\ resp'.status \notin {429, 401}) =>
          \A b \in {x \in CreateBodies : QuizViolates(x)} :
             CreateQuiz(resp'.user, FALSE, b)
                 => Rejected400 /\ UNCHANGED Storage
    /\ (resp'.op = "edit" /\ resp'.status \notin {429, 401}) =>
          \A b \in {x \in UpdateBodies : QuizViolates(x)} :
             EditQuiz(resp'.user, resp'.quizId, FALSE, b)
                 => /\ ~resp'.success /\ UNCHANGED Storage
                    /\ (/\ resp'.quizId \in DOMAIN quizzes
                        /\ quizzes[resp'.quizId].createdById = resp'.user)
                          => Rejected400
    /\ resp'.status \in {429, 401, 400} => UNCHANGED Storage

\* C14: a request whose body violates its schema, once it has passed the
\* tests its handler runs before validation (the limiter, and for create and
\* edit the session, existence and ownership tests), is answered with a
\* validation error (400); whatever the answer, it fails and leaves storage
\* unchanged: no attempt and no quiz is created, no question is deleted or
\* created.
C14_InvalidBodyChangesNothing == [][C14_ValidationStep]_vars

\* a submission with a bad body to a published quiz was answered with the
\* validation error, and the quiz still has no attempt
C14_Witness ==
    /\ resp.op = "submit" /\ resp.code = "VALIDATION_ERROR"
    /\ resp.quizId \in DOMAIN quizzes
    /\ quizzes[resp.quizId].isPublished
    /\ attempts = <<>>

\* an edit with a bad question list was answered with the validation error,
\* and the quiz kept its questions
C14_WitnessEdit ==
    /\ resp.op = "edit" /\ resp.code = "VALIDATION_ERROR"
    /\ resp.quizId \in DOMAIN quizzes
    /\ Len(quizzes[resp.quizId].questions) >= 1


(***************************************************************************)
(* Properties of stored questions                                          *)
(***************************************************************************)
CorrectCount(q) == Cardinality({j \in 1..Len(q.options) : q.options[j].isCorrect})

WellShaped(q) ==
    /\ q.type = "MCQ" => Len(q.options) >= 2 /\ CorrectCount(q) = 1
    /\ q.type = "TRUE_FALSE" => Len(q.options) = 2 /\ CorrectCount(q) = 1
    /\ q.type = "TEXT" => Len(q.options) = 0

\* C15: after any sequence of accepted create and edit requests, every
\* stored MCQ question has at least 2 options and exactly one flagged
\* correct, every stored TRUE_FALSE question has exactly 2 options and
\* exactly one flagged correct, and every stored TEXT question has no option.
C15_StoredQuestionsWellShaped ==
    \A id \in DOMAIN quizzes :
        \A i \in 1..Len(quizzes[id].questions) :
            WellShaped(quizzes[id].questions[i])

\* what server-side validation does establish: a stored MCQ or TRUE_FALSE
\* question has at least one option and at least one flagged correct
C15_StoredChoiceHasCorrectOption ==
    \A id \in DOMAIN quizzes :
        \A i \in 1..Len(quizzes[id].questions) :
            LET q == quizzes[id].questions[i]
            IN  q.type \in {"MCQ", "TRUE_FALSE"} => CorrectCount(q) >= 1


(***************************************************************************)
(* Properties of quiz ownership                                            *)
(***************************************************************************)
C16_OwnerStep ==
    \A id \in DOMAIN quizzes' :
        IF id \in DOMAIN quizzes
        THEN quizzes'[id].createdById = quizzes[id].createdById
        ELSE /\ resp'.op = "create"
             /\ quizzes'[id].createdById = resp'.user
             /\ resp'.user \in Users

\* C16: a quiz's createdById is the user of the session that created it and
\* never changes afterwards, whatever fields an edit's body carries, a
\* createdById field included.
C16_CreatedByIdImmutable == [][C16_OwnerStep]_vars

\* u1's edit whose body named u2 as createdById was accepted, and the quiz
\* is still u1's
C16_Witness ==
    /\ resp.op = "edit" /\ resp.status = 200
    /\ resp.user = "u1"
    /\ resp.data.title = <<"B">>
    /\ quizzes[resp.quizId].createdById = "u1"


(***************************************************************************)
(* Properties of the answers list                                          *)
(***************************************************************************)
QuestionIdsIn(answers) == [i \in 1..Len(answers) |-> answers[i].questionId]

\* an id that no question of the bounded inputs has
ForeignId == QId(9)

\* answer maps over other keys: none, the entries of the first question
\* dropped, an entry for an id that is no question's
KeyVariants ==
    LET m == args.userAnswers
        first == IF args.questions = <<>> THEN {} ELSE {args.questions[1].id}
    IN  { <<>>,
          [k \in DOMAIN m \ first |-> m[k]],
          WithAnswer(m, ForeignId, <<"p">>) }

\* C17: the answers list of calculateQuizScore has exactly one record per
\* input question, the i-th record carries the i-th question's id, and the
\* order is the same for every set of keys the answer map may have.
C17_AnswersInQuestionOrder ==
    Scored =>
        /\ Len(ret.value.answers) = Len(args.questions)
        /\ \A i \in 1..Len(args.questions) :
              ret.value.answers[i].questionId = args.questions[i].id
        /\ \A m \in KeyVariants :
              QuestionIdsIn(calculateQuizScore(args.questions, m).answers)
                  = QuestionIdsIn(ret.value.answers)

\* q2 stored before q1, only q1 answered: the records are q2's, then q1's
C17_Witness ==
    /\ Scored
    /\ Len(args.questions) = 2
    /\ args.questions[1].id = QId(2)
    /\ DOMAIN args.userAnswers = {QId(1)}
    /\ QuestionIdsIn(ret.value.answers) = <<QId(2), QId(1)>>


(***************************************************************************)
(* Properties of partial and oversized answer maps                         *)
(***************************************************************************)
QuestionIdSet(questions) == {questions[i].id : i \in 1..Len(questions)}

\* the answer map m with "" entered for every question it has no entry for
FilledWithEmpty(questions, m) ==
    [k \in DOMAIN m \cup QuestionIdSet(questions) |->
        IF k \in DOMAIN m THEN m[k] ELSE Empty]

\* the answer map m without the entries keyed by ids of no question
WithoutForeignKeys(questions, m) ==
    [k \in DOMAIN m \cap QuestionIdSet(questions) |-> m[k]]

\* C18: calculateQuizScore returns a result for every answer map; a question
\* with no entry is graded exactly as with the entry "": incorrect, and
\* counted in totalPoints; entries keyed by ids of no question change
\* nothing in the result, whether added or removed.
C18_MissingAndExtraKeys ==
    Scored =>
        LET qs == args.questions
            m == args.userAnswers
            r == ret.value
            extra == WithAnswer(m, ForeignId, <<"p">>)
        IN  /\ DOMAIN r = {"score", "totalPoints", "percentage", "answers"}
            /\ r.score \in 0..r.totalPoints
            /\ calculateQuizScore(qs, FilledWithEmpty(qs, m)) = r
            /\ \A i \in 1..Len(qs) :
                  qs[i].id \notin DOMAIN m
                      => /\ ~r.answers[i].isCorrect
                         /\ r.answers[i].userAnswer = Empty
            /\ r.totalPoints = Len(qs)
            /\ calculateQuizScore(qs, extra) = r
            /\ calculateQuizScore(qs, WithoutForeignKeys(qs, extra)) = r

\* three questions, the second without an entry and marked incorrect, the
\* others answered correctly: 2 of 3
C18_Witness ==
    /\ Scored
    /\ Len(args.questions) = 3
    /\ DOMAIN args.userAnswers = {QId(1), QId(3)}
    /\ ret.value.score = 2
    /\ ret.value.totalPoints = 3
    /\ ~ret.value.answers[2].isCorrect


(***************************************************************************)
(* Properties of the result fetch                                          *)
(***************************************************************************)
\* what the answer records of both responses have in common
AnswerCore(answers) ==
    [i \in 1..Len(answers) |->
        [questionId |-> answers[i].questionId,
         userAnswer |-> answers[i].userAnswer,
         correctAnswer |-> answers[i].correctAnswer,
         isCorrect |-> answers[i].isCorrect]]

\* a successful submission directly followed by the fetch of its result
C19_FetchStep ==
    (/\ resp.op \in SubmitOps /\ resp.status = 200
     /\ resp'.op = "result" /\ resp'.status = 200
     /\ resp'.quizId = resp.quizId
     /\ resp'.attemptId = resp.data.attemptId)
        => /\ resp'.data.score = resp.data.score
           /\ resp'.data.totalPoints = resp.data.totalPoints
           /\ resp'.data.percentage = resp.data.percentage
           /\ resp'.data.participantName = resp.data.participantName
           /\ AnswerCore(resp'.data.answers) = AnswerCore(resp.data.answers)

\* C19: a result fetch made after a successful submission, with no edit in
\* between, returns the submission's score, totalPoints, percentage and
\* per-question answers, and the submitted participantName.
C19_ResultRepeatsSubmission == [][C19_FetchStep]_vars


\* the attempt the last result fetch asked for exists and is of the quiz asked for
ResultResolves ==
    /\ resp.attemptId \in DOMAIN attempts
    /\ attempts[resp.attemptId].quizId = resp.quizId

\* C20: a result fetch keyed by (quizId, attemptId) succeeds exactly when
\* the attempt exists and its quizId is the requested one; with no such
\* attempt, or with an attempt of another quiz, it fails with NotFound.
C20_ResultNotFound ==
    resp.op = "result" =>
        IF ResultResolves
        THEN resp.status = 200 /\ resp.success
        ELSE resp.status = 404 /\ resp.code = "NOT_FOUND" /\ ~resp.success

\* the attempt exists, the quiz asked for exists too, but the attempt is of
\* another quiz: NotFound
C20_Witness ==
    /\ resp.op = "result"
    /\ resp.attemptId \in DOMAIN attempts
    /\ resp.quizId \in DOMAIN quizzes
    /\ attempts[resp.attemptId].quizId # resp.quizId
    /\ resp.status = 404

\* the attempt of the quiz asked for: found
C20_WitnessFound ==
    resp.op = "result" /\ ResultResolves /\ resp.status = 200


(***************************************************************************)
(* Properties of the order of statements in the admin handlers             *)
(***************************************************************************)
QuizOps == {"view", "edit", "delete", "attempts"}
AdminOps == QuizOps \cup {"list", "create"}

\* statements that read or write Quiz, Question, Option or Attempt rows
DbReads ==
    {"findQuiz", "findQuizOwnership", "findQuizWithQuestions", "findAttempts",
     "findQuizzes"}
DbWrites == {"createQuiz", "transaction", "deleteQuiz"}

\* what the ownership check is to precede: validation of the body, loading
\* of questions, options or attempts, and writes
AfterOwnership ==
    {"validate", "findQuizWithQuestions", "findAttempts"} \cup DbWrites

\* the request in slot s executes a statement in this step
Steps(s) == calls[s].pc > 0 /\ calls'[s] # calls[s]

C21_OwnershipStep ==
    \A s \in Slots :
        (/\ Steps(s) /\ calls[s].op \in QuizOps
         /\ Statement(calls[s]) \in AfterOwnership)
            => "ownerTest" \in Executed(calls[s])

\* C21: in the handlers of view, edit, delete and view-attempts the
\* existence-and-owner check on the quiz precedes validation of the body,
\* the loading of questions, options or attempts, and every write.
C21_OwnershipCheckedFirst == [][C21_OwnershipStep]_vars

C21_OwnerTestBeforeEffectStep ==
    \A s \in Slots :
        (/\ Steps(s) /\ calls[s].op \in QuizOps
         /\ Statement(calls[s]) \in
               {"validate", "findAttempts", "respond"} \cup DbWrites)
            => "ownerTest" \in Executed(calls[s])

\* what the handlers do establish: the owner test precedes validation, the
\* loading of attempts, every write and the answer
C21_OwnerTestBeforeEffect == [][C21_OwnerTestBeforeEffectStep]_vars

C22_NoSessionStep ==
    \A s \in Slots :
        LET c == calls[s]
        IN  (Steps(s) /\ c.op \in AdminOps /\ c.user = NoUser)
                => /\ Statement(c) \notin DbReads \cup DbWrites
                   /\ UNCHANGED Storage
                   /\ calls'[s].pc = 0
                         => /\ resp'.op = c.op /\ ~resp'.success
                            /\ IF c.throttled
                               THEN resp'.status = 429
                               ELSE /\ resp'.status = 401
                                    /\ resp'.code = "UNAUTHORIZED"

\* C22: an admin request (list, create, view, edit, delete, view-attempts)
\* without a valid session that the limiter lets through is answered 401
\* Unauthorized, and its handler executes no statement that reads or writes
\* a quiz, question or attempt; one the limiter stops is answered 429 and
\* reads and writes nothing either.
C22_NoSessionNoAccess == [][C22_NoSessionStep]_vars

\* an edit without session was answered 401 while quizzes were stored
C22_Witness ==
    /\ resp.op = "edit" /\ resp.status = 401
    /\ quizzes # <<>>
    /\ calls["r1"].pc = 0

(***************************************************************************)
(* Properties of the rate limiter                                          *)
(***************************************************************************)
\* the step counts a request under key k
Counted(k) ==
    /\ k \in DOMAIN rateLimitStore'
    /\ IF k \in DOMAIN rateLimitStore
       THEN rateLimitStore'[k] # rateLimitStore[k] ELSE TRUE

\* key k has a window that is not over
InWindow(k) ==
    IF k \in DOMAIN rateLimitStore THEN rateLimitStore[k].resetTime >= now
    ELSE FALSE

C23_ThrottleStep ==
    \A k \in DOMAIN rateLimitStore' :
        (k[1] = "quiz-submit" /\ Counted(k)) =>
            LET n == rateLimitStore'[k].count
            IN  /\ resp'.op = "submit"
                /\ IF InWindow(k)
                   THEN /\ n = rateLimitStore[k].count + 1
                        /\ rateLimitStore'[k].resetTime =
                              rateLimitStore[k].resetTime
                   ELSE n = 1
                /\ n <= 10 => resp'.status # 429
                /\ n > 10 => /\ resp'.status = 429
                             /\ resp'.code = "TOO_MANY_REQUESTS"
                             /\ UNCHANGED Storage

\* C23: the submissions of one client address are counted one by one within
\* a window; the first 10 of a window are let through, and every further
\* one of that window is answered 429 whatever its body, with quizzes,
\* attempts and id counters unchanged.
C23_SubmitThrottle == [][C23_ThrottleStep]_vars

\* a submission was answered 429 while a published quiz had room for an
\* attempt
C23_Witness ==
    /\ resp.op = "submit" /\ resp.status = 429
    /\ ZId(1) \in DOMAIN quizzes /\ attempts = <<>>
    /\ \E k \in DOMAIN rateLimitStore :
          k[1] = "quiz-submit" /\ rateLimitStore[k].count > 10

\* the key a submission with header f is to be counted under
ExpectedSubmitKey(f) ==
    <<"quiz-submit",
      IF f = Null THEN <<"u", "n", "k", "n", "o", "w", "n">> ELSE <<"a">>>>

C29_WindowStep ==
    /\ \A k \in DOMAIN rateLimitStore' :
          Counted(k) =>
              /\ IF InWindow(k)
                 THEN /\ rateLimitStore'[k].resetTime =
                            rateLimitStore[k].resetTime
                      /\ rateLimitStore'[k].count = rateLimitStore[k].count + 1
                 ELSE /\ rateLimitStore'[k].count = 1
                      /\ rateLimitStore'[k].resetTime = now + 60000
                      /\ resp'.status # 429
              /\ now' = now
              /\ \A j \in DOMAIN rateLimitStore \ {k} :
                    j \in DOMAIN rateLimitStore'
                       /\ rateLimitStore'[j] = rateLimitStore[j]
              /\ k[1] = (IF resp'.op = "submit" THEN "quiz-submit" ELSE "admin")
    /\ \A k \in DOMAIN rateLimitStore \ DOMAIN rateLimitStore' : ~InWindow(k)
    /\ \A f \in Forwarded :
          (/\ resp'.op = "submit" /\ rateLimitStore' # rateLimitStore
           /\ rateLimitStore' = rateLimit(f, RATE_LIMITS.quizSubmit).store)
              => Counted(ExpectedSubmitKey(f))

C29_WitnessThrottled ==
    \E k \in DOMAIN rateLimitStore :
        rateLimitStore[k].count > 10 /\ rateLimitStore[k].resetTime = now

\* a well-formed submission to the published quiz z1 is made in this step:
\* it gets an attempt of its own, scored from its body and the quiz
C24_OwnOutcomeStep ==
    \A f \in Forwarded, b \in EditSubmitBodies :
        (/\ ZId(1) \in DOMAIN quizzes
         /\ resp'.op = "submit"
         /\ rateLimitStore' = rateLimit(f, RATE_LIMITS.quizSubmit).store
         /\ LimitedSubmit(f, ZId(1), b))
            => /\ resp'.status = 200
               /\ resp'.data.attemptId \notin DOMAIN attempts
               /\ DOMAIN attempts' = DOMAIN attempts \cup {resp'.data.attemptId}
               /\ resp'.data.score =
                     InlineScore(quizzes[ZId(1)].questions, b.answers).score

\* C24: every well-formed submission to a published quiz creates one attempt
\* with an id of its own and its own score, whatever submissions came
\* before it, and the submissions share no mutable state of the process.
C24_SubmissionsIndependent ==
    [][C24_OwnOutcomeStep /\ (resp'.op = "submit" => UNCHANGED rateLimitStore)]_vars

(***************************************************************************)
(* Properties of the detail records                                        *)
(***************************************************************************)
\* field f of the first of the options at the positions hits, Null when
\* there is none
FirstField(options, hits, f) ==
    IF hits = {} THEN Null
    ELSE options[CHOOSE j \in hits : \A k \in hits : j <= k][f]

C25_RecordAsDescribed(q, m, r) ==
    LET submitted == IF q.id \in DOMAIN m THEN m[q.id] ELSE Empty
        chosen == {j \in 1..Len(q.options) : q.options[j].id = submitted}
        flagged == {j \in 1..Len(q.options) : q.options[j].isCorrect}
    IN  /\ r.questionId = q.id
        /\ r.userAnswer = submitted
        /\ r.isCorrect \in BOOLEAN
        /\ q.type \in {"MCQ", "TRUE_FALSE"} =>
              /\ r.userAnswerText = FirstField(q.options, chosen, "text")
              /\ r.correctAnswer = FirstField(q.options, flagged, "id")
              /\ r.correctAnswerText = FirstField(q.options, flagged, "text")
        /\ q.type = "TEXT" =>
              /\ r.userAnswerText = submitted
              /\ r.correctAnswer = q.correctAnswer
              /\ r.correctAnswerText = q.correctAnswer

\* C25: the record of every question carries the submitted answer (the
\* empty string when there is none); for MCQ and TRUE_FALSE the text of the
\* option whose id is the submitted answer, null when no option has it, and
\* the id and text of the first option flagged correct, null when none is
\* flagged; for TEXT the submitted text and the question's correctAnswer
\* twice; and score is the number of records with isCorrect true.
C25_DetailRecords ==
    Scored =>
        LET qs == args.questions
            r == ret.value
        IN  /\ Len(r.answers) = Len(qs)
            /\ \A i \in 1..Len(qs) :
                  C25_RecordAsDescribed(qs[i], args.userAnswers, r.answers[i])
            /\ r.score =
                  Cardinality({i \in 1..Len(qs) : r.answers[i].isCorrect})

\* a choice question answered with the id of an option that is not the
\* flagged one: the record names both texts
C25_Witness ==
    /\ Scored /\ Len(args.questions) = 1
    /\ args.questions[1].type = "MCQ"
    /\ ret.value.answers[1].userAnswerText = <<"t", "2">>
    /\ ret.value.answers[1].correctAnswerText = <<"t", "1">>
    /\ ~ret.value.answers[1].isCorrect

\* a TEXT question answered in other letter case
C25_WitnessText ==
    /\ Scored /\ Len(args.questions) = 1
    /\ args.questions[1].type = "TEXT"
    /\ ret.value.answers[1].userAnswerText = <<"p">>
    /\ ret.value.answers[1].correctAnswerText = <<"P">>
    /\ ret.value.answers[1].isCorrect /\ ret.value.score = 1

(***************************************************************************)
(* Properties of withErrorHandler                                          *)
(***************************************************************************)
Wrapped == args.fn = "withErrorHandler" /\ ret.done

\* C26: a request handled through withErrorHandler ends in a response: the
\* handler's own when it returns; for a thrown ApiError one with success
\* false and the error's status and code; for a ZodError 400
\* VALIDATION_ERROR; for anything else success false with a code (400
\* BAD_REQUEST for an error of the Prisma client, 500 INTERNAL_ERROR
\* otherwise).
C26_ErrorsBecomeResponses ==
    Wrapped =>
        LET o == args.outcome
            r == ret.value
        IN  /\ DOMAIN r = {"success", "status", "code", "data"}
            /\ o.kind = "return" => r = o.response
            /\ o.kind = "throw" =>
                  /\ r.success = FALSE
                  /\ r.code # "undefined"
                  /\ r.status \in {400, 401, 403, 404, 429, 500}
                  /\ o.error.class = "ApiError" =>
                        /\ r.status = o.error.statusCode
                        /\ r.code = o.error.code
                  /\ o.error.class = "ZodError" =>
                        r.status = 400 /\ r.code = "VALIDATION_ERROR"
                  /\ o.error.class = "Error" =>
                        IF Head(o.error.name) = "Prisma"
                        THEN r.status = 400 /\ r.code = "BAD_REQUEST"
                        ELSE r.status = 500 /\ r.code = "INTERNAL_ERROR"

\* the SyntaxError of a body that is not JSON was answered 500
C26_Witness ==
    /\ Wrapped /\ args.outcome.kind = "throw"
    /\ args.outcome.error.name = <<"Syntax", "Error">>
    /\ ret.value.status = 500 /\ ret.value.code = "INTERNAL_ERROR"

(***************************************************************************)
(* Properties of the result after an edit                                  *)
(***************************************************************************)
\* C27: in every 200 response of the result handler the percentage is
\* round(100 * score / totalPoints) of the score and totalPoints of the same
\* response (0 when totalPoints is 0), and the number of answers records
\* with isCorrect true is the score.
C27_ResultCoherent ==
    (resp.op = "result" /\ resp.status = 200) =>
        LET d == resp.data
        IN  /\ d.percentage = RoundedPercent(d.score, d.totalPoints)
            /\ Cardinality({i \in 1..Len(d.answers) : d.answers[i].isCorrect})
                  = d.score

(***************************************************************************)
(* Properties of submissions that race with edits and deletes              *)
(***************************************************************************)
C28_InsertStep ==
    \A a \in DOMAIN attempts' \ DOMAIN attempts :
        /\ attempts'[a].quizId \in DOMAIN quizzes
        /\ quizzes[attempts'[a].quizId].isPublished

\* C28: whenever an attempt is inserted, its quiz exists and is published
\* at that moment, also when the owner unpublishes or deletes the quiz
\* while the submission is being handled.
C28_InsertOnlyWhilePublished == [][C28_InsertStep]_vars

\* what holds of the inserts: the quiz exists when the attempt is inserted,
\* and it was published when the handler loaded it
C28_InsertForLoadedQuiz ==
    [][\A a \in DOMAIN attempts' \ DOMAIN attempts :
          /\ attempts'[a].quizId \in DOMAIN quizzes
          /\ \E s \in Slots : /\ calls[s].pc = 2 /\ calls'[s].pc = 0
                              /\ calls[s].quiz.isPublished
                              /\ calls[s].id = attempts'[a].quizId]_vars

(***************************************************************************)
(* Properties of what an edit leaves alone                                 *)
(***************************************************************************)
\* the fields of the quiz row, other than questions, an edit may set
EditableFields == {"title", "description", "isPublished"}

C30_EditFrameStep ==
    (resp'.op = "edit" /\ resp'.status = 200) =>
        LET id == resp'.quizId
        IN  \A b \in UpdateBodies :
                EditQuiz(resp'.user, id, FALSE, b) =>
                    /\ id \in DOMAIN quizzes /\ DOMAIN quizzes' = DOMAIN quizzes
                    /\ \A f \in EditableFields :
                          ~Has(b, f) => quizzes'[id][f] = quizzes[id][f]
                    /\ ~Has(b, "questions") =>
                          /\ quizzes'[id].questions = quizzes[id].questions
                          /\ nextId' = nextId
                    /\ quizzes'[id].id = id
                    /\ quizzes'[id].createdById = quizzes[id].createdById
                    /\ \A j \in DOMAIN quizzes \ {id} : quizzes'[j] = quizzes[j]
                    /\ attempts' = attempts

\* C30: an accepted edit leaves title, description and isPublished as they
\* were unless the body carries the field, leaves the questions and options
\* with their ids as they were when the body carries no questions, and in
\* every case leaves createdById, the other quizzes and all attempts
\* unchanged.
C30_EditChangesOnlySupplied == [][C30_EditFrameStep]_vars

\* a published quiz with an attempt was given a new title and description:
\* it is still published and has its question and its attempt
C30_Witness ==
    /\ resp.op = "edit" /\ resp.status = 200
    /\ resp.data.title = <<"B">> /\ resp.data.isPublished
    /\ Len(resp.data.questions) = 1
    /\ \E a \in DOMAIN attempts : attempts[a].quizId = resp.data.id

====
